---- MODULE Spec2Model ----
(***************************************************************************)
(* Model of the ngergs/ingress controller: the reverse proxy (package      *)
(* revproxy: snapshot cell, path matching, request handlers) and the       *)
(* reconciler (package state: owned set, snapshot build, status            *)
(* write-back, shutdown cleanup).                                          *)
(*                                                                         *)
(* Go strings that are inspected character-wise (request and rule paths)   *)
(* are sequences of one-character strings.  A Go pointer that may be nil   *)
(* is a sequence of length 0 (nil) or 1.  A Go map is a function whose     *)
(* DOMAIN is the set of keys present.                                      *)
(***************************************************************************)
EXTENDS Integers, Sequences, FiniteSets, TLC

VARIABLES
    proxyState,      \* ReverseProxy.state: <<>> (nil) or <<reverseProxyState>>
    loadResult,      \* what the last LoadIngressState returned: "none", "nil", "error"
    resp,            \* the last response written by a request handler
    inflight,        \* the request being served step by step, with its local variables
    hostIp,          \* IngressReconciler.hostIp: <<>> (nil) or <<ip>>
    apiIngress,      \* Ingress objects stored in the API server, by key
    services,        \* ServiceLister cache, by <<namespace, name>>
    secrets,         \* SecretLister cache, by <<namespace, name>>
    ingressState,    \* IngressReconciler.ingressState: the owned set, by key
    queue,           \* reconcile requests waiting in the controller work queue
    recPc,           \* position of the (single) Reconcile call in progress
    processedState,  \* value travelling over ingressProcessedStateChan
    desiredStatus,   \* the updates computed by processState in this Reconcile
    pending,         \* updates whose updateIngressStatus goroutine has not finished
    statusErrs,      \* TRUE iff updateStatus collected an error in this Reconcile
    phase,           \* "running", "cleaning", "done", "crashed"
    cleaned,         \* keys whose cleanIngressStatus goroutine has finished
    cleanErrs,       \* TRUE iff CleanIngressStatus collected an error
    forwarding,      \* TRUE while the forwardUpdates goroutine is in its loop
    ownedVersion,    \* number of changes Reconcile has applied to the owned set
    forwarder,       \* states forwardUpdates has received and not yet loaded
    cellVersion,     \* the ownedVersion the published snapshot was built from
    sync,            \* the syncIngressStatus call followed step by step
    resourceVersion, \* metadata.resourceVersion of the Ingress that call writes
    deb,             \* a debouncer, its listenTrigger goroutine and the clock
    fetch,           \* the failed Ingress fetches of Reconcile and what it returned
    cmp,             \* status entries and the results of statusEqual on them
    collect,         \* the error collection of CleanIngressStatus
    sig              \* the calls of signalUpdateAfterSync and the update channel

vars == <<proxyState, loadResult, resp, inflight, hostIp, apiIngress, services, secrets,
          ingressState, queue, recPc, processedState, desiredStatus, pending,
          statusErrs, phase, cleaned, cleanErrs, forwarding, ownedVersion, forwarder,
          cellVersion, sync, resourceVersion, deb, fetch, cmp, collect, sig>>

proxyVars == <<proxyState, loadResult, resp, inflight>>

ctrlVars == <<hostIp, apiIngress, services, secrets, ingressState, queue, recPc,
              processedState, desiredStatus, pending, statusErrs, phase, cleaned,
              cleanErrs, forwarding, ownedVersion, forwarder, cellVersion, sync,
              resourceVersion, deb, fetch, cmp, collect, sig>>

\* the variables of the step-by-step views of forwardUpdates and syncIngressStatus
stepVars == <<forwarding, ownedVersion, forwarder, cellVersion, sync, resourceVersion, deb, fetch, cmp, collect, sig>>

(***************************************************************************)
(* Bounds of the model.                                                    *)
(***************************************************************************)
\* longest BackendPaths list of one host handed to LoadIngressState
MaxPaths == 3

(***************************************************************************)
(* Generic helpers for Go maps and slices.                                 *)
(***************************************************************************)
EmptyMap == [x \in {} |-> x]

MapPut(m, k, v) == [x \in (DOMAIN m) \cup {k} |-> IF x = k THEN v ELSE m[x]]

MapDelete(m, k) == [x \in (DOMAIN m) \ {k} |-> m[x]]

Range(s) == {s[i] : i \in DOMAIN s}

\* all sequences over S without repetition, of length at most n
RECURSIVE InjSeqs(_, _)
InjSeqs(S, n) ==
    IF n = 0 THEN {<<>>}
    ELSE LET shorter == InjSeqs(S, n - 1)
         IN  shorter \cup UNION {{Append(s, x) : x \in S \ Range(s)} :
                                    s \in {t \in shorter : Len(t) = n - 1}}

\* strings.HasPrefix
HasPrefix(s, prefix) ==
    /\ Len(prefix) <= Len(s)
    /\ SubSeq(s, 1, Len(prefix)) = prefix

(***************************************************************************)
(* package revproxy                                                        *)
(***************************************************************************)
PathTypeExact == "Exact"
PathTypePrefix == "Prefix"
PathTypeImplementationSpecific == "ImplementationSpecific"

StatusServiceUnavailable == 503
StatusNotFound == 404
StatusPermanentRedirect == 308

\* a comparison that orders by path length alone
less_byLengthOnly(a, b) == Len(a.Path) > Len(b.Path)

\* the comparison function handed to sort.Slice
less(a, b) ==
    IF a.PathType = PathTypeExact THEN TRUE
    ELSE IF b.PathType = PathTypeExact THEN FALSE
    ELSE Len(a.Path) > Len(b.Path)

Swap(s, i, j) == [s EXCEPT ![i] = s[j], ![j] = s[i]]

\* inner loop of the insertion sort: for j := i; j > a && less(j, j-1); j--
RECURSIVE SiftLeft(_, _)
SiftLeft(s, j) ==
    IF j > 1 /\ less(s[j], s[j - 1]) THEN SiftLeft(Swap(s, j, j - 1), j - 1) ELSE s

RECURSIVE InsertionSortFrom(_, _)
InsertionSortFrom(s, i) ==
    IF i > Len(s) THEN s ELSE InsertionSortFrom(SiftLeft(s, i), i + 1)

\* sort.Slice(proxies, less): slices of at most 12 elements are insertion sorted
sortSlice(s) == InsertionSortFrom(s, 2)

\* the reverse proxy handler of a path is identified by the URL it is bound to
backendPathHandler(pathRule) ==
    [PathType     |-> pathRule.PathType,
     Path         |-> pathRule.Path,
     ProxyHandler |-> <<pathRule.ServiceName, pathRule.Namespace, pathRule.ServicePort>>]

getBackendPathHandlers(state) ==
    [host \in DOMAIN state |->
        sortSlice([i \in 1..Len(state[host].BackendPaths) |->
                      backendPathHandler(state[host].BackendPaths[i])])]

\* tls.X509KeyPair: succeeds iff the certificate and the key belong together
X509KeyPairOk(tlsCert) == tlsCert.Cert # "" /\ tlsCert.Cert = tlsCert.Key

X509KeyPair(tlsCert) == [Leaf |-> tlsCert.Cert]

HostsWithCert(state) == {host \in DOMAIN state : state[host].TlsCert # <<>>}

getTlsCertsOk(state) ==
    \A host \in HostsWithCert(state) : X509KeyPairOk(state[host].TlsCert[1])

getTlsCerts(state) ==
    [host \in HostsWithCert(state) |-> X509KeyPair(state[host].TlsCert[1])]

\* the error result of LoadIngressState (url.ParseRequestURI never fails on the
\* URLs built from service names, namespaces and ports)
LoadIngressStateOk(state) == getTlsCertsOk(state)

\* the value stored in the snapshot cell by a LoadIngressState that returns nil
newProxyState(state) ==
    [backendPathHandlers |-> getBackendPathHandlers(state),
     tlsCerts            |-> getTlsCerts(state)]

\* a load that stores the routing table before it parses the key pairs
StateAfterLoad_routingFirst(cell, state) ==
    IF LoadIngressStateOk(state) THEN <<newProxyState(state)>>
    ELSE <<[backendPathHandlers |-> getBackendPathHandlers(state),
            tlsCerts            |-> IF cell = <<>> THEN EmptyMap ELSE cell[1].tlsCerts]>>

\* the cell after LoadIngressState(state)
StateAfterLoad(cell, state) ==
    IF LoadIngressStateOk(state) THEN <<newProxyState(state)>> ELSE cell

\* index of the first handler selected by backendPathHandlers.match, 0 if none
RECURSIVE matchFrom(_, _, _)
matchFrom(pathHandlers, path, i) ==
    IF i > Len(pathHandlers) THEN 0
    ELSE IF pathHandlers[i].PathType = PathTypeExact /\ path = pathHandlers[i].Path
         THEN i
    ELSE IF HasPrefix(path, pathHandlers[i].Path) THEN i
    ELSE matchFrom(pathHandlers, path, i + 1)

match(pathHandlers, path) == matchFrom(pathHandlers, path, 1)

\* a response: the status written by the handler itself, or the backend the
\* request was dispatched to
Response(handler, host, path, status, backend) ==
    [handler |-> handler, host |-> host, path |-> path, status |-> status,
     backend |-> backend, location |-> <<>>]

NoResponse == Response("none", "", <<>>, 0, <<>>)

\* the handler returned by GetHandlerProxying, serving (host, path) with the
\* snapshot cell holding `cell`
ServeProxying(cell, host, path) ==
    IF cell = <<>> THEN Response("proxying", host, path, StatusServiceUnavailable, <<>>)
    ELSE IF host \notin DOMAIN cell[1].backendPathHandlers
         THEN Response("proxying", host, path, StatusNotFound, <<>>)
    ELSE LET pathHandlers == cell[1].backendPathHandlers[host]
             i == match(pathHandlers, path)
         IN  IF i # 0
             THEN Response("proxying", host, path, 0, <<pathHandlers[i]>>)
             ELSE Response("proxying", host, path, StatusNotFound, <<>>)

\* "/.well-known/acme-challenge", shortened to its first segment character
acmePath == <<"/", "w">>

\* the Location header of the redirect: "https://" + r.Host + r.URL.Path
redirectLocation(host, path) == <<"https://", host>> \o path

\* the 308 response of the redirect handler
Redirected(host, path) ==
    [Response("redirect", host, path, StatusPermanentRedirect, <<>>)
        EXCEPT !.location = redirectLocation(host, path)]

\* the handler returned by GetHttpsRedirectHandler
ServeRedirect(cell, host, path) ==
    IF cell = <<>> THEN Response("redirect", host, path, StatusServiceUnavailable, <<>>)
    ELSE IF host \notin DOMAIN cell[1].backendPathHandlers
         THEN Response("redirect", host, path, StatusNotFound, <<>>)
    ELSE LET pathHandlers == cell[1].backendPathHandlers[host]
             i == match(pathHandlers, path)
         IN  IF HasPrefix(path, acmePath) /\ i # 0
             THEN Response("redirect", host, path, 0, <<pathHandlers[i]>>)
             ELSE IF i # 0
             THEN Redirected(host, path)
             ELSE Response("redirect", host, path, StatusNotFound, <<>>)

CertificateError(msg) == [Error |-> msg]

\* a callback that falls back to a certificate of the snapshot when the server
\* name has none
ServeCertificate_default(cell, host) ==
    IF cell = <<>>
    THEN Response("certificate", host, <<>>, 0, <<CertificateError("state not initialized")>>)
    ELSE IF host \in DOMAIN cell[1].tlsCerts
    THEN Response("certificate", host, <<>>, 0, <<cell[1].tlsCerts[host]>>)
    ELSE IF DOMAIN cell[1].tlsCerts # {}
    THEN Response("certificate", host, <<>>, 0,
                  <<cell[1].tlsCerts[CHOOSE h \in DOMAIN cell[1].tlsCerts : TRUE]>>)
    ELSE Response("certificate", host, <<>>, 0, <<CertificateError("no certificate found")>>)

\* the callback returned by GetCertificateFunc, called for hello.ServerName = host
ServeCertificate(cell, host) ==
    IF cell = <<>>
    THEN Response("certificate", host, <<>>, 0, <<CertificateError("state not initialized")>>)
    ELSE IF host \notin DOMAIN cell[1].tlsCerts
    THEN Response("certificate", host, <<>>, 0, <<CertificateError("no certificate found")>>)
    ELSE Response("certificate", host, <<>>, 0, <<cell[1].tlsCerts[host]>>)

\* what a handler answers when its whole decision is taken on the cell value `cell`
Serve(handler, cell, host, path) ==
    IF handler = "proxying" THEN ServeProxying(cell, host, path)
    ELSE IF handler = "redirect" THEN ServeRedirect(cell, host, path)
    ELSE ServeCertificate(cell, host)

\* no request is being served
NoRequest == [handler |-> "none", host |-> "", path |-> <<>>, pc |-> "none",
              state |-> <<>>, pathHandlers |-> <<>>]

(***************************************************************************)
(* Inputs of the reverse proxy: the IngressState values handed to          *)
(* LoadIngressState and the requests served.                               *)
(***************************************************************************)
PathRoot == <<"/">>
PathA == <<"/", "a">>
PathAB == <<"/", "a", "/", "b">>

RequestPaths ==
    {PathA, PathAB, <<"/", "a", "/", "b", "c">>, <<"/", "a", "/", "b", "/", "c">>,
     <<"/", "b">>}

RequestHosts == {"h1", "h2"}

BackendPath(pathType, path, namespace, serviceName, servicePort) ==
    [PathType |-> pathType, Path |-> path, Namespace |-> namespace,
     ServiceName |-> serviceName, ServicePort |-> servicePort]

BackendPathMenu ==
    {BackendPath(PathTypeExact, PathA, "ns1", "s1", 80),
     BackendPath(PathTypeExact, PathAB, "ns1", "s2", 80),
     BackendPath(PathTypePrefix, PathRoot, "ns1", "s3", 80),
     BackendPath(PathTypePrefix, PathA, "ns1", "s4", 80),
     BackendPath(PathTypeImplementationSpecific, PathAB, "ns1", "s5", 80)}

TlsCert(cert, key) == [Cert |-> cert, Key |-> key]

TlsCertMenu == {<<>>, <<TlsCert("pair1", "pair1")>>, <<TlsCert("pair1", "pair2")>>}

DomainConfig(backendPaths, tlsCert) == [BackendPaths |-> backendPaths, TlsCert |-> tlsCert]

H1Configs ==
    {DomainConfig(ps, c) : ps \in InjSeqs(BackendPathMenu, MaxPaths), c \in TlsCertMenu}

H2Config ==
    DomainConfig(<<BackendPath(PathTypePrefix, PathRoot, "ns2", "s6", 80)>>,
                 <<TlsCert("pair2", "pair2")>>)

\* one host with every path list, or two hosts, the first with at most one path
LoadInputs ==
    {EmptyMap, "h2" :> H2Config}
        \cup {"h1" :> c : c \in H1Configs}
        \cup {("h1" :> c) @@ ("h2" :> H2Config) :
                  c \in {d \in H1Configs : Len(d.BackendPaths) <= 1}}

(***************************************************************************)
(* Actions of the reverse proxy.                                           *)
(***************************************************************************)
\* ReverseProxy.LoadIngressState called with an arbitrary IngressState
LoadIngressState ==
    \E state \in LoadInputs :
        /\ proxyState' = StateAfterLoad(proxyState, state)
        /\ loadResult' = IF LoadIngressStateOk(state) THEN "nil" ELSE "error"
        /\ UNCHANGED <<resp, inflight, ctrlVars>>

\* one request served by the handler of GetHandlerProxying
GetHandlerProxying ==
    \E host \in RequestHosts, path \in RequestPaths :
        /\ resp' = ServeProxying(proxyState, host, path)
        /\ UNCHANGED <<proxyState, loadResult, inflight, ctrlVars>>

(***************************************************************************)
(* package state: snapshot build (process.go)                              *)
(***************************************************************************)
httpPort == 80
httpsPort == 443

SecretTypeTLS == "kubernetes.io/tls"

IngressClassAnnotation == "kubernetes.io/ingress.class"

ErrServicePortNotFound == "service port not found"
ErrServicePortNameNotFound == "port name specified but not found in service"
ErrInvalidBackendService ==
    "backend service does contain neither port name nor port number for path"
ErrServiceNotFound == "service not found"
ErrTlsSecretNotFound == "referenced secret for tls certificate not found"
ErrTlsSecretWrongType ==
    "referenced secret for tls certificate has wrong type has to be kubernetes.io/tls"

\* fmt.Errorf("%w: ...", kind, args...): an error is its kind and its arguments
Errorf(kind, args) == <<kind>> \o args

\* IngressState.getOrAddEmpty: the state with an entry for key
getOrAddEmpty(state, key) ==
    IF key \in DOMAIN state THEN state
    ELSE MapPut(state, key, DomainConfig(<<>>, <<>>))

\* a port resolution that looks the port name up before the port number
updatePortFromService_nameFirst(svcs, config, servicePortName) ==
    IF config.ServicePort = 0 /\ servicePortName = ""
    THEN [err |-> <<Errorf(ErrInvalidBackendService, <<config.Path>>)>>, config |-> config]
    ELSE IF <<config.Namespace, config.ServiceName>> \notin DOMAIN svcs
    THEN [err |-> <<Errorf(ErrServiceNotFound, <<config.ServiceName>>)>>, config |-> config]
    ELSE LET ports == svcs[<<config.Namespace, config.ServiceName>>].Ports
             byNumber == {i \in DOMAIN ports : ports[i].Port = config.ServicePort}
             byName == {i \in DOMAIN ports : ports[i].Name = servicePortName}
             first == CHOOSE i \in byName : \A j \in byName : i <= j
         IN  IF byName # {}
             THEN [err |-> <<>>,
                   config |-> [config EXCEPT !.ServicePort = ports[first].Port]]
             ELSE IF byNumber # {} THEN [err |-> <<>>, config |-> config]
             ELSE [err |-> <<Errorf(ErrServicePortNameNotFound,
                                    <<servicePortName, config.ServiceName, config.Namespace>>)>>,
                   config |-> config]

\* updatePortFromService: [err |-> <<>> or <<error>>, config |-> the BackendPath]
updatePortFromService(svcs, config, servicePortName) ==
    IF config.ServicePort = 0 /\ servicePortName = ""
    THEN [err |-> <<Errorf(ErrInvalidBackendService, <<config.Path>>)>>, config |-> config]
    ELSE IF <<config.Namespace, config.ServiceName>> \notin DOMAIN svcs
    THEN [err |-> <<Errorf(ErrServiceNotFound, <<config.ServiceName>>)>>, config |-> config]
    ELSE LET ports == svcs[<<config.Namespace, config.ServiceName>>].Ports
             byNumber == {i \in DOMAIN ports : ports[i].Port = config.ServicePort}
             byName == {i \in DOMAIN ports : ports[i].Name = servicePortName}
             first == CHOOSE i \in byName : \A j \in byName : i <= j
         IN  IF byNumber # {} THEN [err |-> <<>>, config |-> config]
             ELSE IF byName # {}
             THEN [err |-> <<>>,
                   config |-> [config EXCEPT !.ServicePort = ports[first].Port]]
             ELSE [err |-> <<Errorf(ErrServicePortNameNotFound,
                                    <<servicePortName, config.ServiceName, config.Namespace>>)>>,
                   config |-> config]

\* the loop over rule.HTTP.Paths: [backendPaths |-> accepted paths, errors |-> errors]
RECURSIVE collectPaths(_, _, _, _, _)
collectPaths(svcs, ingress, paths, i, acc) ==
    IF i > Len(paths) THEN acc
    ELSE LET path == paths[i]
             service == path.Backend.Service[1]
             backendPath == BackendPath(path.PathType, path.Path, ingress.Namespace,
                                        service.Name, service.Port.Number)
             res == updatePortFromService(svcs, backendPath, service.Port.Name)
         IN  IF res.err # <<>>
             THEN collectPaths(svcs, ingress, paths, i + 1,
                      [acc EXCEPT !.errors =
                          Append(@, Errorf(ErrServicePortNotFound,
                                           <<service.Port.Name, service.Name>>))])
             ELSE collectPaths(svcs, ingress, paths, i + 1,
                      [acc EXCEPT !.backendPaths = Append(@, res.config)])

\* collectBackendPaths, rule i onwards: [state |-> ..., errors |-> ...]
RECURSIVE collectBackendPathsFrom(_, _, _, _)
collectBackendPathsFrom(svcs, ingress, i, acc) ==
    IF i > Len(ingress.Spec.Rules) THEN acc
    ELSE LET rule == ingress.Spec.Rules[i]
         IN  IF rule.HTTP = <<>>
             THEN collectBackendPathsFrom(svcs, ingress, i + 1, acc)
             ELSE LET withHost == getOrAddEmpty(acc.state, rule.Host)
                      got == collectPaths(svcs, ingress, rule.HTTP[1].Paths, 1,
                                          [backendPaths |-> <<>>, errors |-> acc.errors])
                  IN  collectBackendPathsFrom(svcs, ingress, i + 1,
                          [state  |-> [withHost EXCEPT ![rule.Host].BackendPaths =
                                          @ \o got.backendPaths],
                           errors |-> got.errors])

collectBackendPaths(svcs, ingress, state) ==
    collectBackendPathsFrom(svcs, ingress, 1, [state |-> state, errors |-> <<>>])

\* the loop over rule.Hosts of one spec.tls entry
RECURSIVE setTlsCert(_, _, _, _)
setTlsCert(state, hosts, i, tlsCert) ==
    IF i > Len(hosts) THEN state
    ELSE setTlsCert([getOrAddEmpty(state, hosts[i]) EXCEPT ![hosts[i]].TlsCert = <<tlsCert>>],
                    hosts, i + 1, tlsCert)

\* a collection of TLS secrets that does not look at the type of the Secret
RECURSIVE collectTlsSecretsFrom_anyType(_, _, _, _)
collectTlsSecretsFrom_anyType(secs, ingress, i, acc) ==
    IF i > Len(ingress.Spec.TLS) THEN acc
    ELSE LET rule == ingress.Spec.TLS[i]
             key == <<ingress.Namespace, rule.SecretName>>
         IN  IF key \notin DOMAIN secs
             THEN collectTlsSecretsFrom_anyType(secs, ingress, i + 1,
                      [acc EXCEPT !.errors =
                          Append(@, Errorf(ErrTlsSecretNotFound, <<rule.SecretName>>))])
             ELSE collectTlsSecretsFrom_anyType(secs, ingress, i + 1,
                      [acc EXCEPT !.state =
                          setTlsCert(@, rule.Hosts, 1,
                                     TlsCert(secs[key].Data.crt, secs[key].Data.key))])

RECURSIVE collectTlsSecretsFrom(_, _, _, _)
collectTlsSecretsFrom(secs, ingress, i, acc) ==
    IF i > Len(ingress.Spec.TLS) THEN acc
    ELSE LET rule == ingress.Spec.TLS[i]
             key == <<ingress.Namespace, rule.SecretName>>
         IN  IF key \notin DOMAIN secs
             THEN collectTlsSecretsFrom(secs, ingress, i + 1,
                      [acc EXCEPT !.errors =
                          Append(@, Errorf(ErrTlsSecretNotFound, <<rule.SecretName>>))])
             ELSE IF secs[key].Type # SecretTypeTLS
             THEN collectTlsSecretsFrom(secs, ingress, i + 1,
                      [acc EXCEPT !.errors =
                          Append(@, Errorf(ErrTlsSecretWrongType,
                                           <<rule.SecretName, ingress.Namespace,
                                             secs[key].Type>>))])
             ELSE collectTlsSecretsFrom(secs, ingress, i + 1,
                      [acc EXCEPT !.state =
                          setTlsCert(@, rule.Hosts, 1,
                                     TlsCert(secs[key].Data.crt, secs[key].Data.key))])

collectTlsSecrets(secs, ingress, state) ==
    collectTlsSecretsFrom(secs, ingress, 1, [state |-> state, errors |-> <<>>])

\* net.IP.String
IPString(ip) == IF ip = <<>> THEN "<nil>" ELSE ip[1]

\* the message of statusFromErrors: the errors joined by ";"
RECURSIVE JoinErrors(_)
JoinErrors(errors) ==
    IF Len(errors) = 1 THEN errors[1]
    ELSE errors[1] \o <<";">> \o JoinErrors(Tail(errors))

IngressPortStatus(port, protocol, error) ==
    [Port |-> port, Protocol |-> protocol, Error |-> error]

\* a status that carries the message of the last error only
statusFromErrors_lastError(errors, ip) ==
    LET errMsg == IF Len(errors) > 0 THEN <<errors[Len(errors)]>> ELSE <<>>
    IN  [IP       |-> IPString(ip),
         Hostname |-> "",
         Ports    |-> <<IngressPortStatus(httpPort, "TCP", errMsg),
                        IngressPortStatus(httpsPort, "TCP", errMsg)>>]

statusFromErrors(errors, ip) ==
    LET errMsg == IF Len(errors) > 0 THEN <<JoinErrors(errors)>> ELSE <<>>
    IN  [IP       |-> IPString(ip),
         Hostname |-> "",
         Ports    |-> <<IngressPortStatus(httpPort, "TCP", errMsg),
                        IngressPortStatus(httpsPort, "TCP", errMsg)>>]

ingressStatusUpdate(ingress, status) == [Ingress |-> ingress, Status |-> status]

\* processState with the map r.ingressState iterated in the order `order`:
\* [state |-> IngressState, desiredStatus |-> the updates in that order]
RECURSIVE processStateFrom(_, _, _, _, _, _, _)
processStateFrom(owned, svcs, secs, ip, order, i, acc) ==
    IF i > Len(order) THEN acc
    ELSE LET ingress == owned[order[i]]
             paths == collectBackendPaths(svcs, ingress, acc.state)
             tls == collectTlsSecrets(secs, ingress, paths.state)
             errors == paths.errors \o tls.errors
         IN  processStateFrom(owned, svcs, secs, ip, order, i + 1,
                 [state         |-> tls.state,
                  desiredStatus |->
                      IF ip # <<>>
                      THEN Append(acc.desiredStatus,
                                  ingressStatusUpdate(ingress, statusFromErrors(errors, ip)))
                      ELSE acc.desiredStatus])

\* processState without the check of r.hostIp: a status for the nil IP is asked for
processState_statusAlways(owned, svcs, secs, ip, order) ==
    processStateFrom(owned, svcs, secs, IF ip = <<>> THEN <<IPString(ip)>> ELSE ip, order, 1,
                     [state |-> EmptyMap, desiredStatus |-> <<>>])

processState(owned, svcs, secs, ip, order) ==
    processStateFrom(owned, svcs, secs, ip, order, 1,
                     [state |-> EmptyMap, desiredStatus |-> <<>>])

\* the orders in which a Go map with the key set S can be iterated
IterationOrders(S) == {order \in InjSeqs(S, Cardinality(S)) : Len(order) = Cardinality(S)}

(***************************************************************************)
(* package state: status write-back (k8sclient.go)                         *)
(***************************************************************************)
\* findIngressStatus: the index of the first entry with the IP, 0 if there is none
findIngressStatus(status, ip) ==
    LET found == {i \in DOMAIN status : status[i].IP = ip}
    IN  IF found = {} THEN 0 ELSE CHOOSE i \in found : \A j \in found : i <= j

portStatusDiffers(port1, port2) ==
    \/ port1.Port # port2.Port
    \/ port1.Protocol # port2.Protocol
    \/ (port1.Error # <<>> /\ port2.Error # <<>> /\ port1.Error[1] # port2.Error[1])
    \/ (port1.Error = <<>> /\ port2.Error # <<>>)
    \/ (port1.Error # <<>> /\ port2.Error = <<>>)

statusEqual(el1, el2) ==
    IF el1.Hostname # el2.Hostname \/ el1.IP # el2.IP \/ Len(el1.Ports) # Len(el2.Ports)
    THEN FALSE
    ELSE \A i \in DOMAIN el1.Ports : ~portStatusDiffers(el1.Ports[i], el2.Ports[i])

\* statusEqual of the revision with informers (client.go): the loop over the ports
\* returns false at the end of its first iteration
statusEqualInformers(el1, el2) ==
    IF el1.Hostname # el2.Hostname \/ el1.IP # el2.IP \/ Len(el1.Ports) # Len(el2.Ports)
    THEN FALSE
    ELSE Len(el1.Ports) = 0

statusContained(list, el) ==
    LET i == findIngressStatus(list, el.IP)
    IN  i # 0 /\ statusEqual(list[i], el)

setIngressStatus(status, target) ==
    LET i == findIngressStatus(status, target.IP)
    IN  IF i # 0 THEN [status EXCEPT ![i] = target] ELSE Append(status, target)

NamespacedName(ingress) == <<ingress.Namespace, ingress.Name>>

\* syncIngressStatus with GET and UpdateStatus as one step; patch is given by the
\* pair (doSync, patched) computed from the status returned by the GET.
\* [result |-> "unchanged" | "written" | "error", status |-> the status written]
syncIngressStatus(api, ingress, doSync, patched) ==
    IF NamespacedName(ingress) \notin DOMAIN api THEN [result |-> "error", status |-> <<>>]
    ELSE IF ~doSync THEN [result |-> "unchanged", status |-> <<>>]
    ELSE [result |-> "written", status |-> patched]

updateIngressStatus(api, ingress, updatedStatus) ==
    LET i == findIngressStatus(ingress.Status, updatedStatus.IP)
    IN  IF i # 0 /\ statusEqual(ingress.Status[i], updatedStatus)
        THEN [result |-> "unchanged", status |-> <<>>]
        ELSE LET current == IF NamespacedName(ingress) \in DOMAIN api
                            THEN api[NamespacedName(ingress)].Status ELSE <<>>
             IN  syncIngressStatus(api, ingress,
                                   ~statusContained(current, updatedStatus),
                                   setIngressStatus(current, updatedStatus))

\* append(s[:i], s[i+1:]...) for the 1-based index i <= Len(s)
RemoveAt(s, i) == SubSeq(s, 1, i - 1) \o SubSeq(s, i + 1, Len(s))

\* cleanIngressStatus; the result "panic" is the slice expression
\* ingress.Status.LoadBalancer.Ingress[i+1:] with i+1 beyond the slice's length
cleanIngressStatus(api, ingress, ip) ==
    IF findIngressStatus(ingress.Status, IPString(ip)) = 0
    THEN [result |-> "unchanged", status |-> <<>>]
    ELSE LET current == IF NamespacedName(ingress) \in DOMAIN api
                        THEN api[NamespacedName(ingress)].Status ELSE <<>>
             i == findIngressStatus(current, IPString(ip))
         IN  IF NamespacedName(ingress) \in DOMAIN api /\ i > Len(ingress.Status)
             THEN [result |-> "panic", status |-> <<>>]
             ELSE syncIngressStatus(api, ingress, i # 0,
                                    IF i # 0 THEN RemoveAt(ingress.Status, i) ELSE <<>>)

(***************************************************************************)
(* package state: the reconciler (ingress.go)                              *)
(***************************************************************************)
\* the -ingress-class-name the controller was started with
ingressClassName == "ingress"

Annotation(ingress, key) ==
    IF key \in DOMAIN ingress.Annotations THEN ingress.Annotations[key] ELSE ""

\* the class filter of Reconcile: TRUE iff the Ingress is ignored
classRejected(ingress) ==
    \/ /\ ingress.Spec.IngressClassName # <<>>
       /\ ingress.Spec.IngressClassName[1] # ingressClassName
    \/ /\ ingress.Spec.IngressClassName = <<>>
       /\ Annotation(ingress, IngressClassAnnotation) # ingressClassName

referencesSecret(el, secretName) ==
    \E i \in DOMAIN el.Spec.TLS : el.Spec.TLS[i].SecretName = secretName

referencesService(el, serviceName) ==
    \E i \in DOMAIN el.Spec.Rules :
        /\ el.Spec.Rules[i].HTTP # <<>>
        /\ \E j \in DOMAIN el.Spec.Rules[i].HTTP[1].Paths :
              LET service == el.Spec.Rules[i].HTTP[1].Paths[j].Backend.Service
              IN  service # <<>> /\ service[1].Name = serviceName

\* the reconcile requests of the Secret watch for the object <<namespace, name>>
findIngressForSecret(owned, secret) ==
    {k \in DOMAIN owned :
        owned[k].Namespace = secret[1] /\ referencesSecret(owned[k], secret[2])}

\* a Service watch that does not compare the namespaces
findIngressForService_anyNamespace(owned, service) ==
    {k \in DOMAIN owned : referencesService(owned[k], service[2])}

\* the reconcile requests of the Service watch for the object <<namespace, name>>
findIngressForService(owned, service) ==
    {k \in DOMAIN owned :
        owned[k].Namespace = service[1] /\ referencesService(owned[k], service[2])}

(***************************************************************************)
(* The cluster objects the reconciler is run against.                      *)
(***************************************************************************)
K1 == <<"ns1", "ing1">>
K2 == <<"ns2", "ing2">>
Keys == {K1, K2}

ServiceKey == <<"ns1", "svc">>
SecretKey == <<"ns1", "sec">>
Secret2Key == <<"ns2", "sec2">>

HostIP == "10.0.0.1"
OtherIP == "10.0.0.2"

ServicePort(name, port) == [Name |-> name, Port |-> port]

Service(ports) == [Ports |-> ports]

Secret(type, crt, key) == [Type |-> type, Data |-> [crt |-> crt, key |-> key]]

HTTPIngressPath(pathType, path, serviceName, portNumber, portName) ==
    [PathType |-> pathType, Path |-> path,
     Backend  |-> [Service |-> <<[Name |-> serviceName,
                                  Port |-> [Number |-> portNumber, Name |-> portName]]>>]]

IngressRule(host, paths) == [Host |-> host, HTTP |-> <<[Paths |-> paths]>>]

IngressTLS(hosts, secretName) == [Hosts |-> hosts, SecretName |-> secretName]

Ingress(key, annotations, className, rules, tls, status) ==
    [Namespace   |-> key[1],
     Name        |-> key[2],
     Annotations |-> annotations,
     Spec        |-> [IngressClassName |-> className, Rules |-> rules, TLS |-> tls],
     Status      |-> status]

\* the ways an Ingress names its class
ClassMenu ==
    {<<EmptyMap, <<"ingress">>>>,
     <<EmptyMap, <<"other">>>>,
     <<IngressClassAnnotation :> "ingress", <<>>>>}

\* the objects a user applies under each key (status not included)
IngressMenu(key) ==
    IF key = K1
    THEN {Ingress(K1, c[1], c[2],
                  <<IngressRule("h1", <<HTTPIngressPath(PathTypePrefix, PathA, "svc", 80, "")>>)>>,
                  <<IngressTLS(<<"h1">>, "sec")>>, <<>>) :
             c \in ClassMenu}
    ELSE {Ingress(K2, EmptyMap, <<"ingress">>, <<>>, <<IngressTLS(<<"h2">>, "sec2")>>, <<>>)}

ServiceMenu == {Service(<<ServicePort("web", 80)>>)}

SecretMenu ==
    {Secret(SecretTypeTLS, "pair1", "pair1"),
     Secret(SecretTypeTLS, "pair1", "pair2")}

\* a status entry of another controller
OtherStatus == [IP |-> OtherIP, Hostname |-> "", Ports |-> <<>>]

\* no syncIngressStatus call is followed
NoSync == [pc |-> "none", kind |-> "none", target |-> <<>>, attempt |-> 0, base |-> 0,
           patched |-> <<>>, result |-> "none"]

\* debounce: the debouncer with its empty trigger channel, and listenTrigger before
\* its loop (lastTriggerTime = time.Now(), triggerOpen = false, a new ticker);
\* the clock starts at 0, `calls` and `fired` are the times of the wrapper calls
\* and of the callbacks so far
\* the events the informers deliver in one run
MaxEvents == 3

\* newKubernetesClients: the informers have not synced, addUpdDelCallbackQueued is
\* false, addUpdDelCallbackMu is free (0), no signal was sent and no handler of an
\* event has started signalUpdateAfterSync; startSent[c] is the number of signals
\* sent when call c started
NewSignals ==
    [synced |-> FALSE, queued |-> FALSE, mu |-> 0, sent |-> 0,
     pc |-> [c \in 1..MaxEvents |-> "new"],
     startSent |-> [c \in 1..MaxEvents |-> 0]]

\* CleanIngressStatus has not been called: no error is held by the collecting
\* goroutine, none is appended to errors, no cleanup has failed, nothing is returned
NoCollect == [held |-> <<>>, errors |-> {}, failed |-> {}, returned |-> <<>>]

\* statusEqual has not been called
NoCompare == [pc |-> "none", el |-> <<>>, equal |-> <<>>]

\* no fetch of Reconcile has failed
NoFetch == [failures |-> 0, result |-> <<>>]

NewDebouncer ==
    [now |-> 0, triggerChan |-> <<>>, lastTriggerTime |-> 0, triggerOpen |-> FALSE,
     tick |-> <<>>, cancelled |-> <<>>, listening |-> TRUE, calls |-> <<>>,
     fired |-> <<>>]

(***************************************************************************)
(* Initial states.                                                         *)
(***************************************************************************)
InitProxyVars ==
    /\ proxyState = <<>>
    /\ loadResult = "none"
    /\ resp = NoResponse
    /\ inflight = NoRequest

InitReconcilerVars ==
    /\ queue = {}
    /\ recPc = "idle"
    /\ processedState = <<>>
    /\ desiredStatus = {}
    /\ pending = {}
    /\ statusErrs = FALSE
    /\ phase = "running"
    /\ cleaned = {}
    /\ cleanErrs = FALSE
    /\ forwarding = TRUE
    /\ ownedVersion = 0
    /\ forwarder = <<>>
    /\ cellVersion = 0
    /\ sync = NoSync
    /\ resourceVersion = 0
    /\ deb = NewDebouncer
    /\ fetch = NoFetch
    /\ cmp = NoCompare
    /\ collect = NoCollect
    /\ sig = NewSignals

\* state.New (with a host IP) and revproxy.New against a cluster that holds the
\* two Secrets and neither Ingresses nor Services
Init ==
    /\ InitProxyVars
    /\ InitReconcilerVars
    /\ hostIp = <<HostIP>>
    /\ apiIngress = EmptyMap
    /\ services = EmptyMap
    /\ secrets = (SecretKey :> Secret(SecretTypeTLS, "pair1", "pair1"))
                     @@ (Secret2Key :> Secret(SecretTypeTLS, "pair2", "pair2"))
    /\ ingressState = EmptyMap

(***************************************************************************)
(* Actions of the reconciler.                                              *)
(***************************************************************************)
\* processState and the send on ingressProcessedStateChan, for the owned set `owned`
Rebuild(owned) ==
    \E order \in IterationOrders(DOMAIN owned) :
        LET built == processState(owned, services, secrets, hostIp, order)
        IN  /\ ingressState' = owned
            /\ processedState' = <<built.state>>
            /\ desiredStatus' = Range(built.desiredStatus)
            /\ recPc' = "send"
            /\ statusErrs' = FALSE
            /\ UNCHANGED <<proxyVars, stepVars, hostIp, apiIngress, services, secrets, pending,
                           phase, cleaned, cleanErrs>>

\* an early return that rebuilds and sends the snapshot all the same
ReturnEarly_rebuilding == Rebuild(ingressState)

ReturnEarly ==
    UNCHANGED <<proxyVars, stepVars, hostIp, apiIngress, services, secrets, ingressState, recPc,
                processedState, desiredStatus, pending, statusErrs, phase, cleaned,
                cleanErrs>>

\* Reconcile(req) up to the send on the state channel
Reconcile(key) ==
    /\ phase = "running"
    /\ recPc = "idle"
    /\ key \in queue
    /\ queue' = queue \ {key}
    /\ \/ /\ key \notin DOMAIN apiIngress
          /\ Rebuild(MapDelete(ingressState, key))
       \/ /\ key \in DOMAIN apiIngress
          /\ classRejected(apiIngress[key])
          /\ ReturnEarly
       \/ /\ key \in DOMAIN apiIngress
          /\ ~classRejected(apiIngress[key])
          /\ key \in DOMAIN ingressState
          /\ ingressState[key].Spec = apiIngress[key].Spec
          /\ ReturnEarly
       \/ /\ key \in DOMAIN apiIngress
          /\ ~classRejected(apiIngress[key])
          /\ ~(key \in DOMAIN ingressState /\ ingressState[key].Spec = apiIngress[key].Spec)
          /\ Rebuild(MapPut(ingressState, key, apiIngress[key]))

\* forwardUpdates receives the state and calls LoadIngressState; Reconcile goes on
\* to updateStatus
forwardUpdates ==
    /\ forwarding
    /\ recPc = "send"
    /\ proxyState' = StateAfterLoad(proxyState, processedState[1])
    /\ loadResult' = IF LoadIngressStateOk(processedState[1]) THEN "nil" ELSE "error"
    /\ processedState' = <<>>
    /\ pending' = IF hostIp # <<>> THEN desiredStatus ELSE {}
    /\ recPc' = "status"
    /\ UNCHANGED <<resp, inflight, hostIp, apiIngress, services, secrets, ingressState,
                   queue, desiredStatus, statusErrs, phase, cleaned, cleanErrs, stepVars>>

\* one goroutine of updateStatus
UpdateStatus ==
    /\ recPc = "status"
    /\ \E update \in pending :
          LET key == NamespacedName(update.Ingress)
              res == updateIngressStatus(apiIngress, update.Ingress, update.Status)
          IN  /\ pending' = pending \ {update}
              /\ statusErrs' = (statusErrs \/ res.result = "error")
              /\ IF res.result = "written"
                 THEN /\ apiIngress' = [apiIngress EXCEPT ![key].Status = res.status]
                      /\ queue' = queue \cup {key}
                 ELSE UNCHANGED <<apiIngress, queue>>
    /\ UNCHANGED <<proxyVars, stepVars, hostIp, services, secrets, ingressState, recPc,
                   processedState, desiredStatus, phase, cleaned, cleanErrs>>

\* updateStatus without wg.Wait(): Reconcile returns while status writes are in flight
ReconcileReturn_noWait ==
    /\ recPc = "status"
    /\ recPc' = "idle"
    /\ desiredStatus' = {}
    /\ statusErrs' = FALSE
    /\ UNCHANGED <<proxyVars, stepVars, hostIp, apiIngress, services, secrets, ingressState, queue,
                   processedState, pending, phase, cleaned, cleanErrs>>

\* wg.Wait() of updateStatus is over and Reconcile returns
ReconcileReturn ==
    /\ recPc = "status"
    /\ pending = {}
    /\ recPc' = "idle"
    /\ desiredStatus' = {}
    /\ statusErrs' = FALSE
    /\ UNCHANGED <<proxyVars, stepVars, hostIp, apiIngress, services, secrets, ingressState, queue,
                   processedState, pending, phase, cleaned, cleanErrs>>

(***************************************************************************)
(* Shutdown: main calls CleanIngressStatus once the manager has stopped.   *)
(***************************************************************************)
Shutdown ==
    /\ phase = "running"
    /\ recPc = "idle"
    /\ phase' = "cleaning"
    /\ UNCHANGED <<proxyVars, stepVars, hostIp, apiIngress, services, secrets, ingressState, queue,
                   recPc, processedState, desiredStatus, pending, statusErrs, cleaned,
                   cleanErrs>>

\* one goroutine of CleanIngressStatus
CleanIngressStatus ==
    /\ phase = "cleaning"
    /\ recPc = "idle"
    /\ \E key \in (DOMAIN ingressState) \ cleaned :
          LET res == cleanIngressStatus(apiIngress, ingressState[key], hostIp)
          IN  /\ cleaned' = cleaned \cup {key}
              /\ cleanErrs' = (cleanErrs \/ res.result = "error")
              /\ phase' = IF res.result = "panic" THEN "crashed" ELSE phase
              /\ IF res.result = "written"
                 THEN apiIngress' = [apiIngress EXCEPT ![key].Status = res.status]
                 ELSE UNCHANGED apiIngress
    /\ UNCHANGED <<proxyVars, stepVars, hostIp, services, secrets, ingressState, queue, recPc,
                   processedState, desiredStatus, pending, statusErrs>>

\* wg.Wait() of CleanIngressStatus is over and it returns the collected errors
CleanReturn ==
    /\ phase = "cleaning"
    /\ recPc = "idle"
    /\ cleaned = DOMAIN ingressState
    /\ phase' = "done"
    /\ UNCHANGED <<proxyVars, stepVars, hostIp, apiIngress, services, secrets, ingressState, queue,
                   recPc, processedState, desiredStatus, pending, statusErrs, cleaned,
                   cleanErrs>>

(***************************************************************************)
(* The cluster: users and other controllers change objects; every change   *)
(* of an Ingress enqueues its key, every change of a Service or Secret     *)
(* enqueues the keys its watch mapper returns.  Reconcile holds the        *)
(* owned-set lock from its first step to its return; the cluster is        *)
(* observed between Reconcile calls.                                       *)
(***************************************************************************)
clusterFrame ==
    UNCHANGED <<proxyVars, stepVars, hostIp, ingressState, recPc, processedState, desiredStatus,
                pending, statusErrs, phase, cleaned, cleanErrs>>

IngressApply ==
    /\ phase = "running"
    /\ recPc = "idle"
    /\ \E key \in Keys : \E obj \in IngressMenu(key) :
          LET new == IF key \in DOMAIN apiIngress
                     THEN [obj EXCEPT !.Status = apiIngress[key].Status]
                     ELSE obj
          IN  /\ key \in DOMAIN apiIngress => apiIngress[key] # new
              /\ apiIngress' = MapPut(apiIngress, key, new)
              /\ queue' = queue \cup {key}
    /\ UNCHANGED <<services, secrets>>
    /\ clusterFrame

IngressDelete ==
    /\ phase = "running"
    /\ recPc = "idle"
    /\ \E key \in DOMAIN apiIngress :
          /\ apiIngress' = MapDelete(apiIngress, key)
          /\ queue' = queue \cup {key}
    /\ UNCHANGED <<services, secrets>>
    /\ clusterFrame

ServiceApply ==
    /\ phase = "running"
    /\ recPc = "idle"
    /\ \E svc \in ServiceMenu :
          /\ ServiceKey \in DOMAIN services => services[ServiceKey] # svc
          /\ services' = MapPut(services, ServiceKey, svc)
    /\ queue' = queue \cup findIngressForService(ingressState, ServiceKey)
    /\ UNCHANGED <<apiIngress, secrets>>
    /\ clusterFrame

ServiceDelete ==
    /\ phase = "running"
    /\ recPc = "idle"
    /\ ServiceKey \in DOMAIN services
    /\ services' = MapDelete(services, ServiceKey)
    /\ queue' = queue \cup findIngressForService(ingressState, ServiceKey)
    /\ UNCHANGED <<apiIngress, secrets>>
    /\ clusterFrame

SecretApply ==
    /\ phase = "running"
    /\ recPc = "idle"
    /\ \E sec \in SecretMenu :
          /\ SecretKey \in DOMAIN secrets => secrets[SecretKey] # sec
          /\ secrets' = MapPut(secrets, SecretKey, sec)
    /\ queue' = queue \cup findIngressForSecret(ingressState, SecretKey)
    /\ UNCHANGED <<apiIngress, services>>
    /\ clusterFrame

\* another controller adds its entry to, or removes it from, the status of ing1
OtherStatusWriter ==
    /\ phase = "running"
    /\ recPc = "idle"
    /\ \E key \in (DOMAIN apiIngress) \cap {K1} :
          LET status == apiIngress[key].Status
              i == findIngressStatus(status, OtherIP)
          IN  /\ \/ i = 0 /\ apiIngress' = [apiIngress EXCEPT ![key].Status =
                                               Append(status, OtherStatus)]
                 \/ i = 0 /\ status # <<>>
                          /\ apiIngress' = [apiIngress EXCEPT ![key].Status =
                                               <<OtherStatus>> \o status]
                 \/ i # 0 /\ apiIngress' = [apiIngress EXCEPT ![key].Status =
                                               RemoveAt(status, i)]
              /\ queue' = queue \cup {key}
    /\ UNCHANGED <<services, secrets>>
    /\ clusterFrame

(***************************************************************************)
(* Specifications.                                                         *)
(***************************************************************************)
Next ==
    \/ \E key \in Keys : Reconcile(key)
    \/ forwardUpdates
    \/ UpdateStatus
    \/ ReconcileReturn
    \/ Shutdown
    \/ CleanIngressStatus
    \/ CleanReturn
    \/ IngressApply
    \/ IngressDelete
    \/ ServiceApply
    \/ ServiceDelete
    \/ SecretApply
    \/ OtherStatusWriter

\* the controller in its cluster
Spec == Init /\ [][Next]_vars

\* the reverse proxy alone, loaded with arbitrary states and serving requests
InitProxy ==
    /\ InitProxyVars
    /\ InitReconcilerVars
    /\ hostIp = <<>>
    /\ apiIngress = EmptyMap
    /\ services = EmptyMap
    /\ secrets = EmptyMap
    /\ ingressState = EmptyMap

NextProxy ==
    \/ LoadIngressState
    \/ GetHandlerProxying

SpecProxy == InitProxy /\ [][NextProxy]_vars

(***************************************************************************)
(* Requests served step by step while LoadIngressState publishes           *)
(* snapshots: each handler is a closure over the proxy whose local         *)
(* variables (state, pathHandlers) are kept in `inflight`.                 *)
(***************************************************************************)
PathAcme == <<"/", "w", "/", "x">>

ServePaths == {PathA, PathAB, PathAcme}

ServeHandlers == {"proxying", "redirect", "certificate"}

ServeInputs ==
    {EmptyMap,
     "h2" :> H2Config,
     "h1" :> DomainConfig(<<BackendPath(PathTypeExact, PathA, "ns1", "s1", 80)>>,
                          <<TlsCert("pair1", "pair1")>>),
     "h1" :> DomainConfig(<<BackendPath(PathTypePrefix, PathA, "ns1", "s4", 80),
                            BackendPath(PathTypePrefix, acmePath, "ns1", "acme", 80)>>,
                          <<TlsCert("pair3", "pair3")>>),
     "h1" :> DomainConfig(<<>>, <<TlsCert("pair1", "pair2")>>)}

\* LoadIngressState called while requests are served
LoadIngressStateServing ==
    \E state \in ServeInputs :
        /\ proxyState' = StateAfterLoad(proxyState, state)
        /\ loadResult' = IF LoadIngressStateOk(state) THEN "nil" ELSE "error"
        /\ UNCHANGED <<resp, inflight, ctrlVars>>

\* state := proxy.state.Load()
ServeLoadState ==
    /\ inflight = NoRequest
    /\ \E handler \in ServeHandlers, host \in RequestHosts, path \in ServePaths :
          inflight' = [handler |-> handler, host |-> host,
                       path |-> IF handler = "certificate" THEN <<>> ELSE path,
                       pc |-> "loaded", state |-> proxyState, pathHandlers |-> <<>>]
    /\ UNCHANGED <<proxyState, loadResult, resp, ctrlVars>>

\* a handler that loads the snapshot cell a second time for the host lookup
loadedPathHandlers_reload(req, cell) ==
    IF cell # <<>> /\ req.host \in DOMAIN cell[1].backendPathHandlers
    THEN cell[1].backendPathHandlers[req.host]
    ELSE <<>>

\* the handlers the request `req` matches its path against; `cell` is the
\* snapshot cell at that moment, which the handlers do not read again
loadedPathHandlers(req, cell) == req.state[1].backendPathHandlers[req.host]

\* the nil check and the lookup of the host (or server name) in the loaded state
ServeLookupHost ==
    /\ inflight.pc = "loaded"
    /\ IF \/ inflight.state = <<>>
          \/ inflight.handler = "certificate"
          \/ inflight.host \notin DOMAIN inflight.state[1].backendPathHandlers
       THEN /\ resp' = Serve(inflight.handler, inflight.state, inflight.host, inflight.path)
            /\ inflight' = NoRequest
       ELSE /\ inflight' = [inflight EXCEPT !.pc = "matching",
                                !.pathHandlers = <<loadedPathHandlers(inflight, proxyState)>>]
            /\ UNCHANGED resp
    /\ UNCHANGED <<proxyState, loadResult, ctrlVars>>

\* a redirect handler that proxies every request an entry matches
dispatches_always(handler, path) == TRUE

\* a matched request goes to the backend: always in the main handler, under the
\* ACME path only in the redirect handler
dispatches(handler, path) == handler = "proxying" \/ HasPrefix(path, acmePath)

\* pathHandlers.match(r.URL.Path) and the response
ServeMatch ==
    /\ inflight.pc = "matching"
    /\ LET pathHandlers == inflight.pathHandlers[1]
           i == match(pathHandlers, inflight.path)
           dispatch == dispatches(inflight.handler, inflight.path)
       IN  resp' = IF i # 0 /\ dispatch
                   THEN Response(inflight.handler, inflight.host, inflight.path, 0,
                                 <<pathHandlers[i]>>)
                   ELSE IF i # 0
                   THEN Redirected(inflight.host, inflight.path)
                   ELSE Response(inflight.handler, inflight.host, inflight.path,
                                 StatusNotFound, <<>>)
    /\ inflight' = NoRequest
    /\ UNCHANGED <<proxyState, loadResult, ctrlVars>>

NextServe ==
    \/ LoadIngressStateServing
    \/ ServeLoadState
    \/ ServeLookupHost
    \/ ServeMatch

SpecServe == InitProxy /\ [][NextServe]_vars

\* one build of the snapshot (processState) over an owned Ingress whose paths
\* name the port of their Service by number, by name, by both or by neither
MaxRulePaths == 2

BuildPathNames == <<PathA, PathAB, PathRoot>>

BuildPortNumbers == {0, 80, 81}

BuildPortNames == {"", "web", "adm"}

\* the lists of at most n paths, path i being BuildPathNames[i]
RECURSIVE BuildPaths(_)
BuildPaths(n) ==
    IF n = 0 THEN {<<>>}
    ELSE LET shorter == BuildPaths(n - 1)
         IN  shorter \cup
             {Append(paths, HTTPIngressPath(PathTypePrefix, BuildPathNames[n], "svc",
                                            number, name)) :
                 paths \in {s \in shorter : Len(s) = n - 1},
                 number \in BuildPortNumbers, name \in BuildPortNames}

BuildIngresses ==
    {Ingress(key, EmptyMap, <<ingressClassName>>, <<IngressRule("h1", paths)>>, <<>>, <<>>) :
        key \in Keys, paths \in BuildPaths(MaxRulePaths)}

BuildServiceMenu ==
    {Service(<<ServicePort("", 80)>>),
     Service(<<ServicePort("web", 80), ServicePort("adm", 81)>>),
     Service(<<ServicePort("web", 81), ServicePort("adm", 80)>>),
     Service(<<ServicePort("web", 80), ServicePort("adm", 8081)>>)}

\* the Service caches: a Service named svc in none, one or both namespaces
BuildServices ==
    {s1 @@ s2 :
        s1 \in {EmptyMap} \cup {<<"ns1", "svc">> :> svc : svc \in BuildServiceMenu},
        s2 \in {EmptyMap} \cup {<<"ns2", "svc">> :> svc : svc \in BuildServiceMenu}}

InitBuild ==
    /\ InitProxyVars
    /\ InitReconcilerVars
    /\ hostIp = <<HostIP>>
    /\ apiIngress = EmptyMap
    /\ secrets = EmptyMap
    /\ services \in BuildServices
    /\ \E ingress \in BuildIngresses :
          ingressState = (NamespacedName(ingress) :> ingress)

\* r.processState() of Reconcile
BuildSnapshot ==
    /\ recPc = "idle"
    /\ \E order \in IterationOrders(DOMAIN ingressState) :
          LET built == processState(ingressState, services, secrets, hostIp, order)
          IN  /\ processedState' = <<built.state>>
              /\ desiredStatus' = Range(built.desiredStatus)
    /\ recPc' = "send"
    /\ UNCHANGED <<proxyVars, stepVars, hostIp, apiIngress, services, secrets, ingressState, queue,
                   pending, statusErrs, phase, cleaned, cleanErrs>>

NextBuild == BuildSnapshot

SpecBuild == InitBuild /\ [][NextBuild]_vars

\* one build of the snapshot over owned Ingresses with spec.tls entries whose
\* Secrets are missing, of type kubernetes.io/tls or of another type
MaxTlsEntries == 2

SecretTypeOpaque == "Opaque"

TlsEntryMenu ==
    {IngressTLS(hosts, secretName) :
        hosts \in {<<"h1">>, <<"h2">>, <<"h1", "h2">>}, secretName \in {"sec", "sec2"}}

\* the spec.tls lists of at most n entries
RECURSIVE TlsLists(_)
TlsLists(n) ==
    IF n = 0 THEN {<<>>}
    ELSE LET shorter == TlsLists(n - 1)
         IN  shorter \cup {Append(tls, entry) :
                               tls \in {s \in shorter : Len(s) = n - 1},
                               entry \in TlsEntryMenu}

TlsIngress(key, tls) == Ingress(key, EmptyMap, <<ingressClassName>>, <<>>, tls, <<>>)

\* the owned sets: ing1 alone, or ing1 and ing2
TlsOwnedSets ==
    {K1 :> TlsIngress(K1, tls) : tls \in TlsLists(MaxTlsEntries)}
        \cup {(K1 :> TlsIngress(K1, tls)) @@ (K2 :> TlsIngress(K2, <<entry>>)) :
                 tls \in TlsLists(MaxTlsEntries), entry \in TlsEntryMenu}

TlsSecrets ==
    {s1 @@ s2 @@ s3 :
        s1 \in {EmptyMap,
                <<"ns1", "sec">> :> Secret(SecretTypeTLS, "pair1", "pair1"),
                <<"ns1", "sec">> :> Secret(SecretTypeOpaque, "pair1", "pair1")},
        s2 \in {EmptyMap, <<"ns1", "sec2">> :> Secret(SecretTypeTLS, "pair2", "pair2")},
        s3 \in {EmptyMap, <<"ns2", "sec">> :> Secret(SecretTypeTLS, "pair3", "key3")}}

InitTls ==
    /\ InitProxyVars
    /\ InitReconcilerVars
    /\ hostIp = <<HostIP>>
    /\ apiIngress = EmptyMap
    /\ services = EmptyMap
    /\ secrets \in TlsSecrets
    /\ ingressState \in TlsOwnedSets

SpecTls == InitTls /\ [][NextBuild]_vars

(***************************************************************************)
(* Reconcile and forwardUpdates step by step: the send on the unbuffered   *)
(* state channel, the receive in forwardUpdates and the call of            *)
(* LoadIngressState are separate steps.  The reconciler runs without a     *)
(* host IP, so that updateStatus has no update to write.                   *)
(***************************************************************************)
MaxChanges == 3

\* forwardUpdates loads in its loop, without a goroutine
mayReceive_concurrent(received) == Len(received) < 2

\* forwardUpdates calls LoadIngressState inside its loop: it is back at the select
\* only when the state it received has been loaded
mayReceive(received) == received = <<>>

\* the part of Reconcile that changes the owned set, processes it and sends the result
RebuildOrdered(owned) ==
    \E order \in IterationOrders(DOMAIN owned) :
        LET built == processState(owned, services, secrets, hostIp, order)
        IN  /\ ownedVersion < MaxChanges
            /\ ingressState' = owned
            /\ ownedVersion' = ownedVersion + 1
            /\ processedState' = <<built.state>>
            /\ desiredStatus' = Range(built.desiredStatus)
            /\ recPc' = "send"
            /\ statusErrs' = FALSE
            /\ UNCHANGED <<proxyVars, hostIp, apiIngress, services, secrets, pending, phase,
                           cleaned, cleanErrs, forwarding, forwarder, cellVersion, sync,
                           resourceVersion, deb, fetch, cmp, collect, sig>>

ReconcileOrdered(key) ==
    /\ phase = "running"
    /\ recPc = "idle"
    /\ key \in queue
    /\ queue' = queue \ {key}
    /\ \/ /\ key \notin DOMAIN apiIngress
          /\ RebuildOrdered(MapDelete(ingressState, key))
       \/ /\ key \in DOMAIN apiIngress
          /\ classRejected(apiIngress[key])
          /\ ReturnEarly
       \/ /\ key \in DOMAIN apiIngress
          /\ ~classRejected(apiIngress[key])
          /\ key \in DOMAIN ingressState
          /\ ingressState[key].Spec = apiIngress[key].Spec
          /\ ReturnEarly
       \/ /\ key \in DOMAIN apiIngress
          /\ ~classRejected(apiIngress[key])
          /\ ~(key \in DOMAIN ingressState /\ ingressState[key].Spec = apiIngress[key].Spec)
          /\ RebuildOrdered(MapPut(ingressState, key, apiIngress[key]))

\* the receive of forwardUpdates completes the send of Reconcile
ForwardReceive ==
    /\ forwarding
    /\ recPc = "send"
    /\ mayReceive(forwarder)
    /\ forwarder' = Append(forwarder, [version |-> ownedVersion, state |-> processedState[1]])
    /\ processedState' = <<>>
    /\ pending' = IF hostIp # <<>> THEN desiredStatus ELSE {}
    /\ recPc' = "status"
    /\ UNCHANGED <<proxyVars, hostIp, apiIngress, services, secrets, ingressState, queue,
                   desiredStatus, statusErrs, phase, cleaned, cleanErrs, forwarding,
                   ownedVersion, cellVersion, sync, resourceVersion, deb, fetch, cmp, collect, sig>>

\* LoadIngressState for a state forwardUpdates has received
ForwardLoad ==
    /\ \E i \in 1..Len(forwarder) :
          LET item == forwarder[i]
          IN  /\ proxyState' = StateAfterLoad(proxyState, item.state)
              /\ loadResult' = IF LoadIngressStateOk(item.state) THEN "nil" ELSE "error"
              /\ cellVersion' = IF LoadIngressStateOk(item.state)
                                THEN item.version ELSE cellVersion
              /\ forwarder' = RemoveAt(forwarder, i)
    /\ UNCHANGED <<resp, inflight, hostIp, apiIngress, services, secrets, ingressState, queue,
                   recPc, processedState, desiredStatus, pending, statusErrs, phase, cleaned,
                   cleanErrs, forwarding, ownedVersion, sync, resourceVersion,
                   deb, fetch, cmp, collect, sig>>

\* state.New without a host IP, against the cluster of Init
InitOrder ==
    /\ InitProxyVars
    /\ InitReconcilerVars
    /\ hostIp = <<>>
    /\ apiIngress = EmptyMap
    /\ services = EmptyMap
    /\ secrets = (SecretKey :> Secret(SecretTypeTLS, "pair1", "pair1"))
                     @@ (Secret2Key :> Secret(SecretTypeTLS, "pair2", "pair2"))
    /\ ingressState = EmptyMap

NextOrder ==
    \/ \E key \in Keys : ReconcileOrdered(key)
    \/ ForwardReceive
    \/ ForwardLoad
    \/ ReconcileReturn
    \/ IngressApply
    \/ IngressDelete

\* the reconciler and forwardUpdates, step by step
SpecOrder == InitOrder /\ [][NextOrder]_vars

(***************************************************************************)
(* syncIngressStatus step by step: the GET, the patch and the UpdateStatus *)
(* of every attempt of retry.RetryOnConflict are separate steps, and       *)
(* another writer changes the status of the same Ingress in between.  The  *)
(* API server gives the object a new resourceVersion with every write and  *)
(* rejects a write whose object carries another resourceVersion than the   *)
(* stored one.                                                             *)
(***************************************************************************)
\* retry.DefaultRetry: Steps
RetrySteps == 5

MaxVersion == 7

\* the API server answers with a conflict iff the object's resourceVersion is not
\* the stored one
conflicts(base, version) == base # version

\* the patch function updateIngressStatus hands to syncIngressStatus, applied to
\* the status the GET returned
patchUpdate(updatedStatus, ingressStatus) ==
    IF statusContained(ingressStatus, updatedStatus)
    THEN [doSync |-> FALSE, panics |-> FALSE, patched |-> ingressStatus]
    ELSE [doSync |-> TRUE, panics |-> FALSE,
          patched |-> setIngressStatus(ingressStatus, updatedStatus)]

\* the patch function cleanIngressStatus hands to syncIngressStatus: the index is
\* found in the status the GET returned, the slices are taken from the stored copy
patchClean(ingress, ip, ingressStatus) ==
    LET i == findIngressStatus(ingressStatus, IPString(ip))
    IN  IF i = 0 THEN [doSync |-> FALSE, panics |-> FALSE, patched |-> ingressStatus]
        ELSE IF i > Len(ingress.Status)
        THEN [doSync |-> FALSE, panics |-> TRUE, patched |-> ingressStatus]
        ELSE [doSync |-> TRUE, panics |-> FALSE, patched |-> RemoveAt(ingress.Status, i)]

\* the stored copy's status after append(s[:i], s[i+1:]...) has moved the tail of
\* its backing array
storedAfterClean(ingress, ip, ingressStatus) ==
    LET i == findIngressStatus(ingressStatus, IPString(ip))
        s == ingress.Status
    IN  IF i = 0 \/ i > Len(s) THEN s ELSE Append(RemoveAt(s, i), s[Len(s)])

syncFrame ==
    UNCHANGED <<proxyVars, hostIp, services, secrets, queue, recPc, processedState,
                desiredStatus, pending, statusErrs, cleaned, cleanErrs, forwarding,
                ownedVersion, forwarder, cellVersion, deb, fetch, cmp, collect, sig>>

\* the desired status entries updateStatus asks for
SyncDesired ==
    {statusFromErrors(<<>>, <<HostIP>>),
     statusFromErrors(<<Errorf(ErrTlsSecretNotFound, <<"sec">>)>>, <<HostIP>>)}

\* updateIngressStatus up to the call of syncIngressStatus
SyncStartUpdate ==
    /\ phase = "running"
    /\ sync.pc = "none"
    /\ resourceVersion < MaxVersion
    /\ \E updatedStatus \in SyncDesired :
          LET ingress == ingressState[K1]
              i == findIngressStatus(ingress.Status, updatedStatus.IP)
          IN  sync' = IF i # 0 /\ statusEqual(ingress.Status[i], updatedStatus)
                      THEN [NoSync EXCEPT !.pc = "done", !.kind = "update",
                                          !.target = <<updatedStatus>>, !.result = "nil"]
                      ELSE [NoSync EXCEPT !.pc = "get", !.kind = "update",
                                          !.target = <<updatedStatus>>, !.attempt = 1]
    /\ UNCHANGED <<apiIngress, ingressState, phase, resourceVersion>>
    /\ syncFrame

\* cleanIngressStatus up to the call of syncIngressStatus
SyncStartClean ==
    /\ phase = "running"
    /\ sync.pc = "none"
    /\ resourceVersion < MaxVersion
    /\ phase' = "cleaning"
    /\ sync' = IF findIngressStatus(ingressState[K1].Status, IPString(hostIp)) = 0
               THEN [NoSync EXCEPT !.pc = "done", !.kind = "clean", !.result = "nil"]
               ELSE [NoSync EXCEPT !.pc = "get", !.kind = "clean", !.attempt = 1]
    /\ UNCHANGED <<apiIngress, ingressState, resourceVersion>>
    /\ syncFrame

\* client.Get, DeepCopy and patchStatus of one attempt
SyncGet ==
    /\ sync.pc = "get"
    /\ IF K1 \notin DOMAIN apiIngress
       THEN /\ sync' = [sync EXCEPT !.pc = "done", !.result = "error"]
            /\ UNCHANGED ingressState
       ELSE LET ingressStatus == apiIngress[K1].Status
                patch == IF sync.kind = "update"
                         THEN patchUpdate(sync.target[1], ingressStatus)
                         ELSE patchClean(ingressState[K1], hostIp, ingressStatus)
            IN  /\ sync' = IF patch.panics
                           THEN [sync EXCEPT !.pc = "done", !.result = "panic"]
                           ELSE IF ~patch.doSync
                           THEN [sync EXCEPT !.pc = "done", !.result = "nil"]
                           ELSE [sync EXCEPT !.pc = "update", !.base = resourceVersion,
                                             !.patched = <<patch.patched>>]
                /\ ingressState' =
                       IF sync.kind = "clean"
                       THEN [ingressState EXCEPT ![K1].Status =
                                storedAfterClean(ingressState[K1], hostIp, ingressStatus)]
                       ELSE ingressState
    /\ UNCHANGED <<apiIngress, phase, resourceVersion>>
    /\ syncFrame

\* client.UpdateStatus of one attempt, and what RetryOnConflict makes of its answer
SyncUpdate ==
    /\ sync.pc = "update"
    /\ IF K1 \notin DOMAIN apiIngress
       THEN /\ sync' = [sync EXCEPT !.pc = "done", !.result = "error"]
            /\ UNCHANGED <<apiIngress, resourceVersion>>
       ELSE IF conflicts(sync.base, resourceVersion)
       THEN /\ sync' = IF sync.attempt < RetrySteps
                       THEN [sync EXCEPT !.pc = "get", !.attempt = @ + 1]
                       ELSE [sync EXCEPT !.pc = "done", !.result = "error"]
            /\ UNCHANGED <<apiIngress, resourceVersion>>
       ELSE /\ sync' = [sync EXCEPT !.pc = "done", !.result = "written"]
            /\ apiIngress' = [apiIngress EXCEPT ![K1].Status = sync.patched[1]]
            /\ resourceVersion' = resourceVersion + 1
    /\ UNCHANGED <<ingressState, phase>>
    /\ syncFrame

\* updateIngressStatus or cleanIngressStatus returns
SyncReturn ==
    /\ sync.pc = "done"
    /\ sync.result # "panic"
    /\ sync' = NoSync
    /\ UNCHANGED <<apiIngress, ingressState, phase, resourceVersion>>
    /\ syncFrame

\* another controller adds its entry to, or removes it from, the status of ing1
SyncOtherWriter ==
    /\ resourceVersion < MaxVersion
    /\ K1 \in DOMAIN apiIngress
    /\ LET status == apiIngress[K1].Status
           i == findIngressStatus(status, OtherIP)
       IN  \/ i = 0 /\ apiIngress' = [apiIngress EXCEPT ![K1].Status =
                                         Append(status, OtherStatus)]
           \/ i = 0 /\ status # <<>>
                    /\ apiIngress' = [apiIngress EXCEPT ![K1].Status =
                                         <<OtherStatus>> \o status]
           \/ i # 0 /\ apiIngress' = [apiIngress EXCEPT ![K1].Status = RemoveAt(status, i)]
    /\ resourceVersion' = resourceVersion + 1
    /\ UNCHANGED <<ingressState, phase, sync>>
    /\ syncFrame

\* the status lists of the stored copy and of the API server when the call starts
SyncStatuses ==
    LET own == statusFromErrors(<<>>, <<HostIP>>)
    IN  {<<>>, <<own>>, <<OtherStatus>>, <<own, OtherStatus>>, <<OtherStatus, own>>}

\* ing1 is owned; its stored copy and the API server need not hold the same status
InitSync ==
    /\ InitProxyVars
    /\ InitReconcilerVars
    /\ hostIp = <<HostIP>>
    /\ services = EmptyMap
    /\ secrets = EmptyMap
    /\ \E obj \in {o \in IngressMenu(K1) : ~classRejected(o)} :
       \E stored \in SyncStatuses : \E served \in SyncStatuses :
          /\ ingressState = (K1 :> [obj EXCEPT !.Status = stored])
          /\ apiIngress = (K1 :> [obj EXCEPT !.Status = served])

NextSync ==
    \/ SyncStartUpdate
    \/ SyncStartClean
    \/ SyncGet
    \/ SyncUpdate
    \/ SyncReturn
    \/ SyncOtherWriter

\* one Ingress, the status writer and another writer
SpecSync == InitSync /\ [][NextSync]_vars

(***************************************************************************)
(* Shutdown step by step.  The root context is cancelled while the         *)
(* reconciler may be anywhere in Reconcile; forwardUpdates returns on      *)
(* ctx.Done(); the manager returns from Start when its Reconcile has       *)
(* returned or its graceful shutdown period is over; main then calls       *)
(* CleanIngressStatus, which takes the owned-set lock Reconcile holds      *)
(* until it returns.                                                       *)
(***************************************************************************)
\* SIGTERM (and the shutdown delay): sigtermCtx is cancelled
Cancel ==
    /\ phase = "running"
    /\ phase' = "stopping"
    /\ UNCHANGED <<proxyVars, stepVars, hostIp, apiIngress, services, secrets, ingressState,
                   queue, recPc, processedState, desiredStatus, pending, statusErrs, cleaned,
                   cleanErrs>>

\* forwardUpdates takes the case <-ctx.Done() of its select and returns
forwardUpdatesStop ==
    /\ phase # "running"
    /\ forwarding
    /\ forwarding' = FALSE
    /\ UNCHANGED <<proxyVars, hostIp, apiIngress, services, secrets, ingressState, queue,
                   recPc, processedState, desiredStatus, pending, statusErrs, phase, cleaned,
                   cleanErrs, ownedVersion, forwarder, cellVersion, sync, resourceVersion,
                   deb, fetch, cmp, collect, sig>>

\* manager.Start returns, wg.Wait() of main is over and main goes on to the cleanup
ManagerStopped ==
    /\ phase = "stopping"
    /\ phase' = "cleaning"
    /\ UNCHANGED <<proxyVars, stepVars, hostIp, apiIngress, services, secrets, ingressState,
                   queue, recPc, processedState, desiredStatus, pending, statusErrs, cleaned,
                   cleanErrs>>

NextShutdown ==
    \/ \E key \in Keys : Reconcile(key)
    \/ forwardUpdates
    \/ UpdateStatus
    \/ ReconcileReturn
    \/ Cancel
    \/ forwardUpdatesStop
    \/ ManagerStopped
    \/ CleanIngressStatus
    \/ CleanReturn
    \/ IngressApply
    \/ IngressDelete

\* the controller from its start to the end of main
SpecShutdown == Init /\ [][NextShutdown]_vars

\* every goroutine that can take a step takes it eventually; the cluster and the
\* signal are under no obligation
SpecShutdownFair ==
    /\ SpecShutdown
    /\ WF_vars(\E key \in Keys : Reconcile(key))
    /\ WF_vars(forwardUpdates)
    /\ WF_vars(UpdateStatus)
    /\ WF_vars(ReconcileReturn)
    /\ WF_vars(forwardUpdatesStop)
    /\ WF_vars(ManagerStopped)
    /\ WF_vars(CleanIngressStatus)
    /\ WF_vars(CleanReturn)

(***************************************************************************)
(* debounce: the wrapper pushes time.Now() on the buffered trigger         *)
(* channel; listenTrigger selects among the trigger channel, the ticker    *)
(* and ctx.Done(), and Go takes any of the cases that are ready.  Time is  *)
(* counted in units; the ticker, created when the clock is at 0, puts the  *)
(* time of every bufferDuration-th unit on its channel of capacity 1 and   *)
(* drops it when the channel is full.                                      *)
(***************************************************************************)
bufferDuration == 2

MaxTime == 7

MaxCalls == 2

debFrame ==
    UNCHANGED <<proxyVars, hostIp, apiIngress, services, secrets, ingressState, queue, recPc,
                processedState, desiredStatus, pending, statusErrs, phase, cleaned,
                cleanErrs, forwarding, ownedVersion, forwarder, cellVersion, sync,
                resourceVersion, fetch, cmp, collect, sig>>

\* pushNewTrigger, the wrapper debounce returns
pushNewTrigger ==
    /\ Len(deb.calls) < MaxCalls
    /\ deb' = [deb EXCEPT !.triggerChan = Append(@, deb.now),
                          !.calls = Append(@, deb.now)]
    /\ debFrame

\* the context handed to debounce is cancelled
DebounceCancel ==
    /\ deb.cancelled = <<>>
    /\ deb' = [deb EXCEPT !.cancelled = <<deb.now>>]
    /\ debFrame

\* case lastTriggerTime = <-debouncer.triggerChan
ListenTrigger ==
    /\ deb.listening
    /\ deb.triggerChan # <<>>
    /\ deb' = [deb EXCEPT !.lastTriggerTime = Head(deb.triggerChan),
                          !.triggerOpen = TRUE,
                          !.triggerChan = Tail(@)]
    /\ debFrame

\* the condition under which a tick calls the callback
tickFires(triggerOpen, ticktime, lastTriggerTime) ==
    triggerOpen /\ ticktime - lastTriggerTime > bufferDuration

\* case ticktime := <-ticker.C
ListenTick ==
    /\ deb.listening
    /\ deb.tick # <<>>
    /\ deb' = IF tickFires(deb.triggerOpen, deb.tick[1], deb.lastTriggerTime)
              THEN [deb EXCEPT !.tick = <<>>, !.triggerOpen = FALSE,
                               !.fired = Append(@, deb.now)]
              ELSE [deb EXCEPT !.tick = <<>>]
    /\ debFrame

\* case <-ctx.Done(): ticker.Stop() and return
ListenDone ==
    /\ deb.listening
    /\ deb.cancelled # <<>>
    /\ deb' = [deb EXCEPT !.listening = FALSE]
    /\ debFrame

\* a unit of time passes; the running ticker ticks on every bufferDuration-th unit
TimePasses ==
    /\ deb.now < MaxTime
    /\ LET now == deb.now + 1
       IN  deb' = IF deb.listening /\ now % bufferDuration = 0 /\ deb.tick = <<>>
                  THEN [deb EXCEPT !.now = now, !.tick = <<now>>]
                  ELSE [deb EXCEPT !.now = now]
    /\ debFrame

\* a case of the select of listenTrigger is ready
selectReady ==
    deb.listening /\ (deb.triggerChan # <<>> \/ deb.tick # <<>> \/ deb.cancelled # <<>>)

\* time passes only when listenTrigger waits in its select with no case ready
TimePassesIdle ==
    /\ ~selectReady
    /\ TimePasses

InitDebounce ==
    /\ InitProxyVars
    /\ InitReconcilerVars
    /\ hostIp = <<>>
    /\ apiIngress = EmptyMap
    /\ services = EmptyMap
    /\ secrets = EmptyMap
    /\ ingressState = EmptyMap

NextDebounce ==
    \/ pushNewTrigger
    \/ DebounceCancel
    \/ ListenTrigger
    \/ ListenTick
    \/ ListenDone
    \/ TimePasses

\* the debouncer with a goroutine that runs whenever the scheduler lets it
SpecDebounce == InitDebounce /\ [][NextDebounce]_vars

NextDebouncePrompt ==
    \/ pushNewTrigger
    \/ DebounceCancel
    \/ ListenTrigger
    \/ ListenTick
    \/ ListenDone
    \/ TimePassesIdle

\* the debouncer with a goroutine that takes every ready case before time goes on
SpecDebouncePrompt == InitDebounce /\ [][NextDebouncePrompt]_vars

(***************************************************************************)
(* The watch mappers alone: the owned set holds Ingresses of two           *)
(* namespaces that reference Services and Secrets of the same names, and   *)
(* Service and Secret events arrive for objects of both namespaces.        *)
(***************************************************************************)
\* the objects a watch event is about, as <<namespace, name>>
WatchObjects == {"ns1", "ns2"} \X {"svc", "sec"}

\* a path whose backend is a resource, not a Service
ResourcePath == [PathType |-> PathTypePrefix, Path |-> PathA, Backend |-> [Service |-> <<>>]]

\* the stored copies of the Ingress `key`
WatchIngressMenu(key) ==
    {Ingress(key, EmptyMap, <<"ingress">>, rules, tls, <<>>) :
        rules \in {<<>>,
                   <<[Host |-> "h1", HTTP |-> <<>>]>>,
                   <<IngressRule("h1", <<ResourcePath>>)>>,
                   <<IngressRule("h1", <<HTTPIngressPath(PathTypePrefix, PathA, "svc", 80, "")>>)>>,
                   <<IngressRule("h1", <<ResourcePath,
                                          HTTPIngressPath(PathTypePrefix, PathA, "sec", 80, "")>>)>>},
        tls \in {<<>>, <<IngressTLS(<<"h1">>, "sec")>>,
                 <<IngressTLS(<<"h1">>, "svc"), IngressTLS(<<"h2">>, "sec")>>}}

\* the owned sets: ing2 of ns2 alone or beside ing1 of ns1
WatchOwnedSets ==
    {K2 :> obj2 : obj2 \in WatchIngressMenu(K2)}
        \cup {(K1 :> obj1) @@ (K2 :> obj2) :
                 obj1 \in WatchIngressMenu(K1), obj2 \in WatchIngressMenu(K2)}

InitWatch ==
    /\ InitProxyVars
    /\ InitReconcilerVars
    /\ hostIp = <<>>
    /\ apiIngress = EmptyMap
    /\ services = EmptyMap
    /\ secrets = EmptyMap
    /\ ingressState \in WatchOwnedSets

watchFrame ==
    UNCHANGED <<proxyVars, stepVars, hostIp, apiIngress, services, secrets, ingressState,
                recPc, processedState, desiredStatus, pending, statusErrs, phase, cleaned,
                cleanErrs>>

\* an event of the Service watch: the requests of the mapper are enqueued
WatchService ==
    /\ \E service \in WatchObjects :
          queue' = queue \cup findIngressForService(ingressState, service)
    /\ watchFrame

\* an event of the Secret watch
WatchSecret ==
    /\ \E secret \in WatchObjects :
          queue' = queue \cup findIngressForSecret(ingressState, secret)
    /\ watchFrame

NextWatch ==
    \/ WatchService
    \/ WatchSecret

SpecWatch == InitWatch /\ [][NextWatch]_vars

(***************************************************************************)
(* Properties of the reverse proxy (checked under SpecProxy).              *)
(***************************************************************************)
\* what the main proxy handler is said to answer to the request of response r
\* when the snapshot cell holds `cell`
ClaimedProxying(cell, r) ==
    IF cell = <<>> THEN r.status = StatusServiceUnavailable /\ r.backend = <<>>
    ELSE IF r.host \notin DOMAIN cell[1].backendPathHandlers
    THEN r.status = StatusNotFound /\ r.backend = <<>>
    ELSE LET hs == cell[1].backendPathHandlers[r.host]
             exact == {i \in DOMAIN hs :
                          hs[i].PathType = PathTypeExact /\ hs[i].Path = r.path}
             prefix == {i \in DOMAIN hs :
                          hs[i].PathType # PathTypeExact /\ HasPrefix(r.path, hs[i].Path)}
         IN  IF exact # {} THEN \E i \in exact : r.backend = <<hs[i]>>
             ELSE IF prefix # {}
             THEN \E i \in prefix :
                      /\ r.backend = <<hs[i]>>
                      /\ \A j \in prefix : Len(hs[j].Path) <= Len(hs[i].Path)
             ELSE r.status = StatusNotFound /\ r.backend = <<>>

\* C1: the main proxy handler answers 503 without a snapshot, 404 for an unknown
\* host, and otherwise dispatches to the Exact entry whose path equals the request
\* path, else to the longest Prefix/ImplementationSpecific entry whose path is a
\* prefix of it, else answers 404; an Exact entry is never selected for another path.
C1_MainHandlerDispatch ==
    [][(resp' # resp /\ resp'.handler = "proxying")
          => ClaimedProxying(proxyState, resp')]_vars

\* C2: after a successful LoadIngressState every host's handlers have all Exact
\* entries before all Prefix/ImplementationSpecific entries, and the latter in
\* order of non-increasing path length.
C2_PathsSorted ==
    proxyState # <<>> =>
        \A host \in DOMAIN proxyState[1].backendPathHandlers :
            LET hs == proxyState[1].backendPathHandlers[host]
            IN  \A i, j \in DOMAIN hs :
                    /\ (hs[i].PathType = PathTypeExact /\ hs[j].PathType # PathTypeExact)
                          => i < j
                    /\ (i < j /\ hs[i].PathType # PathTypeExact
                              /\ hs[j].PathType # PathTypeExact)
                          => Len(hs[i].Path) >= Len(hs[j].Path)

\* a snapshot was loaded whose host h1 has an Exact entry behind which two
\* Prefix/ImplementationSpecific entries of different lengths follow
C2_Witness ==
    /\ loadResult = "nil"
    /\ proxyState # <<>>
    /\ "h1" \in DOMAIN proxyState[1].backendPathHandlers
    /\ LET hs == proxyState[1].backendPathHandlers["h1"]
       IN  /\ Len(hs) = MaxPaths
           /\ hs[1].PathType = PathTypeExact
           /\ hs[Len(hs) - 1].PathType # PathTypeExact
           /\ Len(hs[Len(hs) - 1].Path) > Len(hs[Len(hs)].Path)

(***************************************************************************)
(* Properties of the controller in its cluster (checked under Spec).       *)
(***************************************************************************)
\* the hosts an Ingress names in its rules and its TLS entries
hostsOf(ingress) ==
    {ingress.Spec.Rules[i].Host : i \in DOMAIN ingress.Spec.Rules}
        \cup UNION {Range(ingress.Spec.TLS[i].Hosts) : i \in DOMAIN ingress.Spec.TLS}

\* no reconcile request is waiting and no Reconcile is running
quiescent == phase = "running" /\ recPc = "idle" /\ queue = {}

\* C3: once every reconcile request caused by Ingress, Service and Secret events
\* has been processed and forwarded, the published snapshot is the one built from
\* the current owned set and the current Services and Secrets (whenever that
\* build can be loaded by the proxy).
C3_Convergence ==
    (quiescent /\ proxyState # <<>>) =>
        \A order \in IterationOrders(DOMAIN ingressState) :
            LET built == processState(ingressState, services, secrets, hostIp, order).state
            IN  LoadIngressStateOk(built) => proxyState = <<newProxyState(built)>>

\* C4: after a Reconcile of key K, K is in the owned set iff the Ingress exists and
\* its class matches the configured class.
C4_OwnedIffClassMatches ==
    [][\A key \in Keys :
          (key \in queue /\ key \notin queue')
              => (key \in DOMAIN ingressState'
                     <=> (key \in DOMAIN apiIngress /\ ~classRejected(apiIngress[key])))]_vars

\* C5: an Ingress that was reconciled while its class did not match contributes no
\* path and no certificate to a snapshot published by a later reconcile and
\* receives no status write.
C5_RejectedContributesNothing ==
    [][\A key \in DOMAIN apiIngress :
          (classRejected(apiIngress[key]) /\ key \notin queue)
              => /\ (recPc = "send" /\ recPc' = "status" /\ loadResult' = "nil")
                       => \A host \in hostsOf(apiIngress[key]) :
                              /\ host \notin DOMAIN proxyState'[1].backendPathHandlers
                              /\ host \notin DOMAIN proxyState'[1].tlsCerts
                 /\ recPc = "status" => apiIngress'[key].Status = apiIngress[key].Status]_vars

\* C6: when a Reconcile that rebuilt the snapshot returns without an API failure,
\* the status of every owned Ingress in the API server holds an entry for the
\* controller's IP that equals the DesiredStatus computed in that reconcile.
C6_StatusEqualsDesired ==
    [][(recPc = "status" /\ recPc' = "idle" /\ ~statusErrs)
          => \A update \in desiredStatus :
                 LET key == NamespacedName(update.Ingress)
                 IN  key \in DOMAIN apiIngress
                        => LET status == apiIngress[key].Status
                               i == findIngressStatus(status, IPString(hostIp))
                           IN  i # 0 /\ status[i] = update.Status]_vars

\* C7: after CleanIngressStatus returned without errors no Ingress of the owned set
\* has a status entry with the controller's host IP in the API server.
C7_CleanRemovesEntry ==
    (phase = "done" /\ ~cleanErrs)
        => \A key \in (DOMAIN ingressState) \cap (DOMAIN apiIngress) :
               findIngressStatus(apiIngress[key].Status, IPString(hostIp)) = 0

\* C8: the status written by cleanIngressStatus is the status the GET returned
\* without the entry of the controller's host IP, in the same order.
C8_CleanTouchesOwnEntryOnly ==
    [][\A key \in DOMAIN apiIngress :
          (phase = "cleaning" /\ key \notin cleaned /\ key \in cleaned'
              /\ apiIngress'[key].Status # apiIngress[key].Status)
              => LET status == apiIngress[key].Status
                     i == findIngressStatus(status, IPString(hostIp))
                 IN  i # 0 /\ apiIngress'[key].Status = RemoveAt(status, i)]_vars

\* C9: a TLS Secret whose data is no key pair is a non-fatal build error: the
\* routing and the other hosts' certificates of that build are published, only
\* that host's certificate is dropped, and the error is recorded in the
\* DesiredStatus of the Ingress that names the host.
C9_BadKeyPairNonFatal ==
    [][(recPc = "send" /\ recPc' = "status")
          => LET state == processedState[1]
                 bad == {host \in HostsWithCert(state) :
                            ~X509KeyPairOk(state[host].TlsCert[1])}
             IN  bad # {}
                    => /\ proxyState' # <<>>
                       /\ proxyState'[1].backendPathHandlers = getBackendPathHandlers(state)
                       /\ DOMAIN proxyState'[1].tlsCerts = HostsWithCert(state) \ bad
                       /\ \A host \in bad :
                              \E update \in desiredStatus :
                                  /\ host \in hostsOf(update.Ingress)
                                  /\ update.Status.Ports[1].Error # <<>>]_vars

(***************************************************************************)
(* Properties of the snapshot build (checked under SpecBuild).             *)
(***************************************************************************)
\* the path of an owned Ingress that BackendPath b under `host` was built from
\* resolves to b.ServicePort: by number if the number is a port of the Service of
\* the Ingress's namespace, else by name
resolvedFrom(host, b) ==
    \E key \in DOMAIN ingressState :
        \E r \in DOMAIN ingressState[key].Spec.Rules :
            LET rule == ingressState[key].Spec.Rules[r]
            IN  /\ rule.Host = host
                /\ rule.HTTP # <<>>
                /\ \E p \in DOMAIN rule.HTTP[1].Paths :
                      LET path == rule.HTTP[1].Paths[p]
                          backend == path.Backend.Service[1]
                          svcKey == <<key[1], backend.Name>>
                      IN  /\ path.Path = b.Path
                          /\ path.PathType = b.PathType
                          /\ backend.Name = b.ServiceName
                          /\ key[1] = b.Namespace
                          /\ svcKey \in DOMAIN services
                          /\ LET ports == Range(services[svcKey].Ports)
                             IN  IF \E sp \in ports : sp.Port = backend.Port.Number
                                 THEN b.ServicePort = backend.Port.Number
                                 ELSE \E sp \in ports :
                                          /\ sp.Name = backend.Port.Name
                                          /\ sp.Port = b.ServicePort

\* C10: the servicePort of every BackendPath of a built snapshot is a port of the
\* referenced Service of the Ingress's namespace: the path's port number whenever
\* that number is a port of the Service (also when the port name names another
\* port), and otherwise the port of the Service port with the path's port name.
C10_ServicePortResolution ==
    processedState # <<>> =>
        \A host \in DOMAIN processedState[1] :
            \A i \in DOMAIN processedState[1][host].BackendPaths :
                resolvedFrom(host, processedState[1][host].BackendPaths[i])

\* a build kept two paths: the first names a port by number and another port by
\* name and got the number, the second got the port of the name it gives
C10_Witness ==
    /\ recPc = "send"
    /\ processedState # <<>>
    /\ \E key \in DOMAIN ingressState :
          LET paths == ingressState[key].Spec.Rules[1].HTTP[1].Paths
              built == processedState[1]["h1"].BackendPaths
              ports == Range(services[<<key[1], "svc">>].Ports)
          IN  /\ Len(paths) = 2
              /\ Len(built) = 2
              /\ LET port == paths[1].Backend.Service[1].Port
                 IN  /\ \E sp \in ports : sp.Port = port.Number
                     /\ \E sp \in ports : sp.Name = port.Name /\ sp.Port # port.Number
                     /\ built[1].ServicePort = port.Number
              /\ LET port == paths[2].Backend.Service[1].Port
                 IN  /\ port.Number # 0
                     /\ \A sp \in ports : sp.Port # port.Number
                     /\ \E sp \in ports : sp.Name = port.Name /\ sp.Port = built[2].ServicePort

\* the paths of the owned Ingress `key` (one rule, host h1)
ownedPaths(key) == ingressState[key].Spec.Rules[1].HTTP[1].Paths

\* the built snapshot holds a BackendPath of host h1 with the path of `path`
keptInSnapshot(path) ==
    /\ "h1" \in DOMAIN processedState[1]
    /\ \E i \in DOMAIN processedState[1]["h1"].BackendPaths :
          processedState[1]["h1"].BackendPaths[i].Path = path.Path

\* the error messages recorded in the DesiredStatus of the owned Ingress `key`
recordedErrors(key) ==
    UNION {Range(update.Status.Ports[1].Error) :
              update \in {u \in desiredStatus : NamespacedName(u.Ingress) = key}}

\* C11: a path that gives only a port number which is no port of the referenced
\* Service (or whose Service does not exist) is dropped from the snapshot and an
\* error is recorded in the DesiredStatus of its Ingress, whatever the names of
\* the Service's ports.
C11_NumberOnlyNoMatchDropped ==
    processedState # <<>> =>
        \A key \in DOMAIN ingressState :
            \A p \in DOMAIN ownedPaths(key) :
                LET path == ownedPaths(key)[p]
                    port == path.Backend.Service[1].Port
                    svcKey == <<key[1], path.Backend.Service[1].Name>>
                IN  (/\ port.Number # 0
                     /\ port.Name = ""
                     /\ svcKey \in DOMAIN services
                           => \A sp \in Range(services[svcKey].Ports) : sp.Port # port.Number)
                       => ~keptInSnapshot(path) /\ recordedErrors(key) # {}

\* C12: a path that gives neither a port number nor a port name is dropped from
\* the snapshot and the error recorded for it in the DesiredStatus of its Ingress
\* is of kind InvalidBackendService.
C12_InvalidBackendServiceKind ==
    processedState # <<>> =>
        \A key \in DOMAIN ingressState :
            \A p \in DOMAIN ownedPaths(key) :
                LET path == ownedPaths(key)[p]
                    port == path.Backend.Service[1].Port
                IN  (port.Number = 0 /\ port.Name = "")
                       => /\ ~keptInSnapshot(path)
                          /\ \E msg \in recordedErrors(key) :
                                 \E i \in DOMAIN msg : msg[i] = ErrInvalidBackendService

\* the spec.tls entries of owned Ingresses that list `host` and whose Secret exists
\* in the namespace of the Ingress with type kubernetes.io/tls, as <<key, index>>
resolvingTls(host) ==
    {e \in UNION {{<<key, i>> : i \in DOMAIN ingressState[key].Spec.TLS} :
                     key \in DOMAIN ingressState} :
        LET entry == ingressState[e[1]].Spec.TLS[e[2]]
            secKey == <<e[1][1], entry.SecretName>>
        IN  /\ host \in Range(entry.Hosts)
            /\ secKey \in DOMAIN secrets
            /\ secrets[secKey].Type = SecretTypeTLS}

\* the message `msg` holds an error of kind `kind` about the Secret `secretName`
tlsErrorIn(msg, kind, secretName) ==
    \E i \in DOMAIN msg :
        i < Len(msg) /\ msg[i] = kind /\ msg[i + 1] = secretName

C14_UnchangedSpecNoEffects ==
    [][\A key \in Keys :
          (/\ key \in queue /\ key \notin queue'
           /\ key \in DOMAIN apiIngress
           /\ ~classRejected(apiIngress[key])
           /\ key \in DOMAIN ingressState
           /\ ingressState[key].Spec = apiIngress[key].Spec)
             => UNCHANGED <<ingressState, processedState, proxyState, loadResult,
                            apiIngress, desiredStatus, pending, recPc>>]_vars

\* the request caused by the status write to ing1 was reconciled against the
\* unchanged spec: no request is left and the stored copy still lacks the status
C14_Witness ==
    /\ quiescent
    /\ K1 \in DOMAIN ingressState
    /\ K1 \in DOMAIN apiIngress
    /\ ~classRejected(apiIngress[K1])
    /\ ingressState[K1].Spec = apiIngress[K1].Spec
    /\ ingressState[K1].Status # apiIngress[K1].Status

(***************************************************************************)
(* Properties of requests served concurrently with LoadIngressState        *)
(* (checked under SpecServe).                                              *)
(***************************************************************************)
\* C15: a request loads the snapshot cell once, the loaded snapshot stays the same
\* for the whole request also when newer snapshots are published meanwhile, and
\* the response is the one decided on that snapshot alone.
C15_OneSnapshotPerRequest ==
    [][/\ (inflight = NoRequest /\ inflight' # NoRequest)
             => inflight'.state = proxyState
       /\ (inflight # NoRequest /\ inflight' # NoRequest)
             => inflight'.state = inflight.state
       /\ (inflight # NoRequest /\ inflight' = NoRequest)
             => resp' = Serve(inflight.handler, inflight.state, inflight.host,
                              inflight.path)]_vars

\* a request has looked its host up and is about to match its path while the
\* cell already holds another snapshot, on which the answer would be different
C15_Witness ==
    /\ inflight.pc = "matching"
    /\ inflight.state # proxyState
    /\ Serve(inflight.handler, inflight.state, inflight.host, inflight.path)
          # Serve(inflight.handler, proxyState, inflight.host, inflight.path)

(***************************************************************************)
(* Properties of the reconciler and forwardUpdates (checked under          *)
(* SpecOrder).                                                             *)
(***************************************************************************)
\* C16: snapshots are published in the order in which Reconcile changed the owned
\* set: the snapshot cell is never overwritten by a snapshot built from an older
\* owned set than the one it reflects.
C16_SnapshotsInOrder == [][cellVersion' >= cellVersion]_vars

\* the cell reflects the second change while the snapshot of the third change has
\* been received and is not loaded yet
C16_Witness ==
    /\ cellVersion = 2
    /\ Len(forwarder) = 1
    /\ forwarder[1].version = 3

(***************************************************************************)
(* Properties of the status writer (checked under SpecSync).               *)
(***************************************************************************)
\* the entries of a status list that belong to other writers
othersOf(status) == SelectSeq(status, LAMBDA el : el.IP # HostIP)

\* every UpdateStatus that is accepted is based on the version of the last GET,
\* and a call that gave up after RetrySteps conflicts has left the object alone
SyncWritesOnFreshBase ==
    [][/\ (sync.pc = "update" /\ sync'.result = "written") => sync.base = resourceVersion
       /\ (sync.pc = "update" /\ sync'.result = "error") => apiIngress' = apiIngress
       /\ sync.attempt <= RetrySteps]_vars

\* C17: the status writer never loses another writer's update: the entries of
\* other writers the API server holds when a write of the status writer is
\* accepted are in the status after the write, unchanged and in the same order.
C17_NoLostUpdate ==
    [][(sync.pc = "update" /\ sync'.result = "written")
          => othersOf(apiIngress'[K1].Status) = othersOf(apiIngress[K1].Status)]_vars

(***************************************************************************)
(* Properties of the status write-back (checked under Spec).               *)
(***************************************************************************)
\* the indices of the entries of a status list that carry the IP
entriesOf(status, ip) == {i \in DOMAIN status : status[i].IP = ip}

\* C18: after updateIngressStatus has returned without an error for an Ingress of
\* the API server, the status of that Ingress holds exactly one entry with the
\* controller's host IP, and the entries with other IPs are the ones it held
\* before, in the same order.
C18_ExactlyOneOwnEntry ==
    [][\A update \in pending :
          LET key == NamespacedName(update.Ingress)
          IN  (/\ recPc = "status"
               /\ pending' = pending \ {update}
               /\ key \in DOMAIN apiIngress
               /\ updateIngressStatus(apiIngress, update.Ingress, update.Status).result
                      # "error")
                  => /\ Cardinality(entriesOf(apiIngress'[key].Status, IPString(hostIp))) = 1
                     /\ othersOf(apiIngress'[key].Status) = othersOf(apiIngress[key].Status)]_vars

\* C19: Reconcile returns only after every status write it started has completed:
\* no status write is in flight once Reconcile has returned, nor when a Reconcile
\* changes the owned set.
C19_ReturnsAfterStatusWrites ==
    [][/\ recPc' = "idle" => pending' = {}
       /\ ingressState' # ingressState => pending = {}]_vars

\* the two status writes of one Reconcile have completed and Reconcile is about to
\* return
C19_Witness ==
    /\ recPc = "status"
    /\ Cardinality(desiredStatus) = 2
    /\ pending = {}

(***************************************************************************)
(* Properties of the shutdown (checked under SpecShutdownFair).            *)
(***************************************************************************)
\* C20: after the root context is cancelled the shutdown always completes:
\* CleanIngressStatus takes the owned-set lock, cleans and returns, and main ends
\* (a panic of the cleanup ends the process as well).
C20_ShutdownCompletes == (phase = "stopping") ~> (phase \in {"done", "crashed"})

(***************************************************************************)
(* Properties of the redirect handler and of GetCertificate (checked under *)
(* SpecServe).                                                             *)
(***************************************************************************)
\* an entry matches a path: an Exact entry iff its path is the request path, any
\* other entry iff its path is a prefix of the request path
entryMatches(entry, path) ==
    IF entry.PathType = PathTypeExact THEN entry.Path = path
    ELSE HasPrefix(path, entry.Path)

\* what the redirect handler is said to answer to the request of response r when
\* it has loaded `cell` from the snapshot cell
ClaimedRedirect(cell, r) ==
    IF cell = <<>> THEN r.status = StatusServiceUnavailable /\ r.backend = <<>>
    ELSE IF r.host \notin DOMAIN cell[1].backendPathHandlers
    THEN r.status = StatusNotFound /\ r.backend = <<>>
    ELSE LET hs == cell[1].backendPathHandlers[r.host]
             matching == {i \in DOMAIN hs : entryMatches(hs[i], r.path)}
         IN  IF HasPrefix(r.path, acmePath) /\ matching # {}
             THEN \E i \in matching : r.backend = <<hs[i]>>
             ELSE IF matching # {}
             THEN /\ r.status = StatusPermanentRedirect
                  /\ r.backend = <<>>
                  /\ r.location = <<"https://", r.host>> \o r.path
             ELSE r.status = StatusNotFound /\ r.backend = <<>>

\* C21: the redirect handler answers 503 without a snapshot, 404 for an unknown
\* host, dispatches a request under the ACME path that an entry of the host
\* matches to that entry's backend, answers 308 with Location https://<h><p> to
\* any other request an entry matches, and 404 otherwise.
C21_RedirectHandler ==
    [][(inflight # NoRequest /\ inflight' = NoRequest /\ inflight.handler = "redirect")
          => ClaimedRedirect(inflight.state, resp')]_vars

\* the answer of GetCertificate is an error
isCertificateError(r) == Len(r.backend) = 1 /\ "Error" \in DOMAIN r.backend[1]

\* C22: GetCertificate returns the certificate the loaded snapshot stores for
\* exactly the requested server name, and an error, never another certificate,
\* when there is no snapshot or the server name has no certificate.
C22_CertificateForServerName ==
    [][(inflight # NoRequest /\ inflight' = NoRequest /\ inflight.handler = "certificate")
          => LET cell == inflight.state
             IN  IF cell # <<>> /\ inflight.host \in DOMAIN cell[1].tlsCerts
                 THEN resp'.backend = <<cell[1].tlsCerts[inflight.host]>>
                 ELSE isCertificateError(resp')]_vars

\* GetCertificate has answered with an error for a server name without a
\* certificate while the snapshot holds the certificate of another host
C22_Witness ==
    /\ resp.handler = "certificate"
    /\ isCertificateError(resp)
    /\ proxyState # <<>>
    /\ resp.host \notin DOMAIN proxyState[1].tlsCerts
    /\ DOMAIN proxyState[1].tlsCerts # {}

(***************************************************************************)
(* Properties of debounce (checked under SpecDebounce and                  *)
(* SpecDebouncePrompt).                                                    *)
(***************************************************************************)
\* the time of the last wrapper call
lastCall == deb.calls[Len(deb.calls)]

\* C23: when all wrapper calls lie within a window of length bufferDuration, the
\* callback fires at most once in total, however listenTrigger is scheduled.
C23_BurstFiresAtMostOnce ==
    (deb.calls # <<>> /\ lastCall - deb.calls[1] <= bufferDuration)
        => Len(deb.fired) <= 1

\* C24: once more than bufferDuration has passed since the last wrapper call, with
\* no cancellation, the callback has fired for that call (listenTrigger has taken
\* every case that was ready).
C24_FiredAfterQuiescence ==
    (/\ deb.calls # <<>>
     /\ deb.cancelled = <<>>
     /\ ~selectReady
     /\ deb.now - lastCall > bufferDuration)
        => \E i \in DOMAIN deb.fired : deb.fired[i] >= lastCall

\* C25: once the context handed to debounce is cancelled, the callback is never
\* invoked again.
C25_NoCallbackAfterCancel ==
    [][deb.cancelled # <<>> => deb'.fired = deb.fired]_vars

\* C26: the callback is never invoked at a moment when a wrapper call returned
\* less than bufferDuration earlier.
C26_QuietWindowBeforeCallback ==
    [][deb'.fired # deb.fired
          => \A i \in DOMAIN deb.calls : deb.now - deb.calls[i] >= bufferDuration]_vars

(***************************************************************************)
(* Properties of Reconcile for a deleted Ingress (checked under Spec).     *)
(***************************************************************************)
\* the hosts with a path or a certificate in the published snapshot
publishedHosts == DOMAIN proxyState[1].backendPathHandlers \cup DOMAIN proxyState[1].tlsCerts

\* the hosts only the Ingress `key` contributes
onlyHostsOf(key) ==
    UNION {hostsOf(obj) : obj \in IngressMenu(key)}
        \ UNION {hostsOf(obj) : obj \in UNION {IngressMenu(k) : k \in Keys \ {key}}}

\* C27: when Reconcile has found the Ingress of a key absent, removed the key
\* from the owned set and forwarded the snapshot built from the remaining owned
\* Ingresses, no path or certificate contributed only by that key is in the
\* published snapshot.
C27_DeletedKeyNotPublished ==
    \A key \in Keys :
        (recPc # "send" /\ key \notin DOMAIN ingressState /\ proxyState # <<>>)
            => publishedHosts \cap onlyHostsOf(key) = {}

(***************************************************************************)
(* Properties of the watch mappers (checked under SpecWatch).              *)
(***************************************************************************)
\* the names of the backend Services and of the TLS Secrets a stored spec references
backendServiceNames(ingress) ==
    UNION {{path.Backend.Service[1].Name :
               path \in {p \in Range(rule.HTTP[1].Paths) : p.Backend.Service # <<>>}} :
           rule \in {r \in Range(ingress.Spec.Rules) : r.HTTP # <<>>}}

tlsSecretNames(ingress) == {tls.SecretName : tls \in Range(ingress.Spec.TLS)}

\* C28: the Service (Secret) watch mapper returns exactly the keys of the owned
\* set that lie in the namespace of the changed object and whose stored spec
\* references a backend Service (a TLS secretName) with the object's name.
C28_WatchMappersExact ==
    \A obj \in WatchObjects :
        /\ findIngressForService(ingressState, obj)
              = {k \in DOMAIN ingressState :
                    k[1] = obj[1] /\ obj[2] \in backendServiceNames(ingressState[k])}
        /\ findIngressForSecret(ingressState, obj)
              = {k \in DOMAIN ingressState :
                    k[1] = obj[1] /\ obj[2] \in tlsSecretNames(ingressState[k])}

\* both owned Ingresses reference a Service svc, each in its own namespace, and an
\* event has enqueued the one of ns2 alone
C28_Witness ==
    /\ DOMAIN ingressState = {K1, K2}
    /\ "svc" \in backendServiceNames(ingressState[K1])
    /\ "svc" \in backendServiceNames(ingressState[K2])
    /\ queue = {K2}

(***************************************************************************)
(* Reconcile when the API server fails the fetch of the Ingress with an    *)
(* error other than NotFound.                                              *)
(***************************************************************************)
\* the fetches the API server fails in one run
MaxFetchFailures == 2

\* errors of the API server other than NotFound
FetchErrors == {"timeout", "forbidden"}

\* a Reconcile that swallows the error of the fetch
fetchErrorResult_swallowed(err) == [Requeue |-> FALSE, err |-> <<>>]

\* what Reconcile returns for the error err of the fetch
fetchErrorResult(err) ==
    [Requeue |-> TRUE, err |-> <<"error fetching ingress state: ", err>>]

\* Reconcile(req) whose fetch fails: it returns before it takes the owned-set lock;
\* the work queue adds the request again when an error or a requeue is returned
ReconcileFetchError(key) ==
    /\ phase = "running"
    /\ recPc = "idle"
    /\ key \in queue
    /\ fetch.failures < MaxFetchFailures
    /\ \E err \in FetchErrors :
          LET result == fetchErrorResult(err)
          IN  /\ fetch' = [failures |-> fetch.failures + 1, result |-> <<result>>]
              /\ queue' = IF result.Requeue \/ result.err # <<>>
                          THEN queue
                          ELSE queue \ {key}
    /\ UNCHANGED <<proxyVars, hostIp, apiIngress, services, secrets, ingressState, recPc,
                   processedState, desiredStatus, pending, statusErrs, phase, cleaned,
                   cleanErrs, forwarding, ownedVersion, forwarder, cellVersion, sync,
                   resourceVersion, deb, cmp, collect, sig>>

NextFetch ==
    \/ \E key \in Keys : Reconcile(key)
    \/ \E key \in Keys : ReconcileFetchError(key)
    \/ forwardUpdates
    \/ UpdateStatus
    \/ ReconcileReturn
    \/ IngressApply
    \/ IngressDelete
    \/ OtherStatusWriter

\* the controller against an API server that fails some fetches
SpecFetch == Init /\ [][NextFetch]_vars

\* C29: a Reconcile whose fetch of the Ingress fails with an error other than
\* NotFound returns a requeue request together with the error, the request stays
\* in the work queue, and the owned set, the state on its way to the proxy, the
\* published snapshot and every Ingress status are what they were
C29_FetchErrorRequeues ==
    [][fetch'.failures # fetch.failures =>
          /\ fetch'.result # <<>>
          /\ fetch'.result[1].Requeue
          /\ fetch'.result[1].err # <<>>
          /\ queue' = queue
          /\ ingressState' = ingressState
          /\ processedState' = processedState
          /\ proxyState' = proxyState
          /\ apiIngress' = apiIngress]_vars

\* a fetch has failed while an Ingress was owned, published and carried a status
C29_Witness ==
    /\ fetch.result # <<>>
    /\ fetch.result[1].Requeue
    /\ queue # {}
    /\ proxyState # <<>>
    /\ \E key \in DOMAIN ingressState :
          key \in DOMAIN apiIngress /\ apiIngress[key].Status # <<>>

(***************************************************************************)
(* The controller started with or without -host-ip, from its start to the  *)
(* end of the shutdown cleanup.                                            *)
(***************************************************************************)
\* state.New with the host IP main parsed: nil when the flag is empty or invalid
InitOptionalIp ==
    /\ InitProxyVars
    /\ InitReconcilerVars
    /\ hostIp \in {<<>>, <<HostIP>>}
    /\ apiIngress = EmptyMap
    /\ services = EmptyMap
    /\ secrets = (SecretKey :> Secret(SecretTypeTLS, "pair1", "pair1"))
                     @@ (Secret2Key :> Secret(SecretTypeTLS, "pair2", "pair2"))
    /\ ingressState = EmptyMap

NextOptionalIp ==
    \/ \E key \in Keys : Reconcile(key)
    \/ forwardUpdates
    \/ UpdateStatus
    \/ ReconcileReturn
    \/ Shutdown
    \/ CleanIngressStatus
    \/ CleanReturn
    \/ IngressApply
    \/ IngressDelete
    \/ ServiceApply
    \/ OtherStatusWriter

SpecOptionalIp == InitOptionalIp /\ [][NextOptionalIp]_vars

\* the steps of the controller: Reconcile with its status update, and the cleanup
ControllerStep ==
    \/ \E key \in Keys : Reconcile(key)
    \/ forwardUpdates
    \/ UpdateStatus
    \/ ReconcileReturn
    \/ CleanIngressStatus
    \/ CleanReturn

\* C30: without a host IP the controller never writes a status: processState asks
\* for no status, updateStatus has nothing to do, and no step of Reconcile or of
\* the shutdown cleanup changes an Ingress of the API server
C30_NoStatusWriteWithoutHostIp ==
    /\ [](hostIp = <<>> => desiredStatus = {} /\ pending = {} /\ ~statusErrs /\ ~cleanErrs)
    /\ [][hostIp = <<>> /\ ControllerStep => apiIngress' = apiIngress]_vars

\* without a host IP, the cleanup has run over an owned Ingress that carries the
\* status entry of another controller
C30_Witness ==
    /\ hostIp = <<>>
    /\ phase = "done"
    /\ proxyState # <<>>
    /\ \E key \in DOMAIN ingressState :
          /\ ingressState[key].Status # <<>>
          /\ key \in DOMAIN apiIngress
          /\ apiIngress[key].Status # <<>>

\* the messages a text is made of, read from token i on: the parts between the ";"
RECURSIVE splitMessages(_, _, _)
splitMessages(text, i, acc) ==
    IF i > Len(text) THEN acc
    ELSE IF text[i] = ";" THEN splitMessages(text, i + 1, Append(acc, <<>>))
    ELSE splitMessages(text, i + 1, [acc EXCEPT ![Len(acc)] = Append(@, text[i])])

\* the errors the build records for an Ingress: those of its paths, then those of
\* its spec.tls entries
buildErrors(ingress) ==
    collectBackendPaths(services, ingress, EmptyMap).errors
        \o collectTlsSecrets(secrets, ingress, EmptyMap).errors

\* C31: the DesiredStatus of every owned Ingress is one entry with the host IP and
\* the port statuses 80/TCP and 443/TCP in that order, both with the same error
\* message: none iff the build recorded no error for the Ingress, otherwise a text
\* that splits at its ";" into the recorded messages in the order of recording
C31_DesiredStatusShape ==
    recPc = "send" =>
        \A key \in DOMAIN ingressState :
            LET updates == {u \in desiredStatus : NamespacedName(u.Ingress) = key}
                errors == buildErrors(ingressState[key])
            IN  /\ Cardinality(updates) = 1
                /\ \A u \in updates :
                      /\ u.Status.IP = HostIP
                      /\ Len(u.Status.Ports) = 2
                      /\ u.Status.Ports[1].Port = 80
                      /\ u.Status.Ports[2].Port = 443
                      /\ \A i \in 1..2 : u.Status.Ports[i].Protocol = "TCP"
                      /\ u.Status.Ports[1].Error = u.Status.Ports[2].Error
                      /\ (u.Status.Ports[1].Error = <<>>) <=> (errors = <<>>)
                      /\ errors # <<>> =>
                            splitMessages(u.Status.Ports[1].Error[1], 1, <<<<>>>>) = errors

\* a build recorded two different errors for one Ingress
C31_Witness ==
    /\ recPc = "send"
    /\ \E u \in desiredStatus :
          LET errors == buildErrors(u.Ingress)
          IN  Len(errors) = 2 /\ errors[1] # errors[2] /\ u.Status.Ports[1].Error # <<>>

(***************************************************************************)
(* Reconcile hands arbitrary states with ties of the sort key to            *)
(* forwardUpdates, which loads them into the proxy one after the other.     *)
(***************************************************************************)
\* paths with ties: two Exact entries, two Prefix entries of equal length
SortPathMenu ==
    {BackendPath(PathTypeExact, PathA, "ns1", "s1", 80),
     BackendPath(PathTypeExact, PathAB, "ns1", "s2", 80),
     BackendPath(PathTypePrefix, PathA, "ns1", "s4", 80),
     BackendPath(PathTypePrefix, <<"/", "b">>, "ns1", "s7", 80)}

SortInputs ==
    {EmptyMap}
        \cup {"h1" :> DomainConfig(ps, c) :
                 ps \in InjSeqs(SortPathMenu, MaxPaths), c \in TlsCertMenu}

\* the send of Reconcile on the state channel, for an arbitrary processed state
SendState ==
    /\ phase = "running"
    /\ recPc = "idle"
    /\ \E state \in SortInputs : processedState' = <<state>>
    /\ recPc' = "send"
    /\ UNCHANGED <<proxyVars, stepVars, hostIp, apiIngress, services, secrets, ingressState,
                   queue, desiredStatus, pending, statusErrs, phase, cleaned, cleanErrs>>

NextLoad ==
    \/ SendState
    \/ forwardUpdates
    \/ ReconcileReturn

SpecLoad == InitProxy /\ [][NextLoad]_vars

\* two entries of a path list have the same sort key
sameSortKey(a, b) ==
    \/ a.PathType = PathTypeExact /\ b.PathType = PathTypeExact
    \/ /\ a.PathType # PathTypeExact
       /\ b.PathType # PathTypeExact
       /\ Len(a.Path) = Len(b.Path)

\* the place of the handler of pathRule in the sorted list hs
placeOf(hs, pathRule) == CHOOSE k \in DOMAIN hs : hs[k] = backendPathHandler(pathRule)

\* the sorted handlers hs keep the order the entries with equal sort keys have in ps
tiesKeepOrder(ps, hs) ==
    \A i, j \in DOMAIN ps :
        (i < j /\ sameSortKey(ps[i], ps[j])) => placeOf(hs, ps[i]) < placeOf(hs, ps[j])

\* C32: a load that returns nil publishes, for every host, a path list in which two
\* entries with the same sort key (both Exact, or both not Exact with paths of equal
\* length) stand in the order they had in the path list of the state loaded
C32_SortTiesStable ==
    [][(recPc = "send" /\ recPc' = "status" /\ loadResult' = "nil") =>
          \A host \in DOMAIN processedState[1] :
              tiesKeepOrder(processedState[1][host].BackendPaths,
                            proxyState'[1].backendPathHandlers[host])]_vars

\* with Prefix entries only, ties keep their order (the comparison is strict there)
PrefixTiesStable ==
    [][(recPc = "send" /\ recPc' = "status" /\ loadResult' = "nil") =>
          \A host \in DOMAIN processedState[1] :
              LET ps == processedState[1][host].BackendPaths
              IN  (\A i \in DOMAIN ps : ps[i].PathType # PathTypeExact) =>
                      tiesKeepOrder(ps, proxyState'[1].backendPathHandlers[host])]_vars

(***************************************************************************)
(* statusEqual on three arbitrary status entries.                          *)
(***************************************************************************)
\* the ports of a status entry
MaxPorts == 1

PortStatusMenu ==
    {IngressPortStatus(80, "TCP", <<>>),
     IngressPortStatus(80, "TCP", <<"e1">>),
     IngressPortStatus(80, "TCP", <<"e2">>),
     IngressPortStatus(443, "UDP", <<>>)}

RECURSIVE PortLists(_)
PortLists(n) ==
    IF n = 0 THEN {<<>>}
    ELSE LET shorter == PortLists(n - 1)
         IN  shorter \cup {Append(ports, port) :
                               ports \in {s \in shorter : Len(s) = n - 1},
                               port \in PortStatusMenu}

StatusEntryMenu ==
    {[IP |-> head[1], Hostname |-> head[2], Ports |-> ports] :
        head \in {<<HostIP, "">>, <<OtherIP, "">>, <<HostIP, "lb">>},
        ports \in PortLists(MaxPorts)}

InitCompare ==
    /\ InitProxyVars
    /\ hostIp = <<HostIP>>
    /\ apiIngress = EmptyMap
    /\ services = EmptyMap
    /\ secrets = EmptyMap
    /\ ingressState = EmptyMap
    /\ queue = {}
    /\ recPc = "idle"
    /\ processedState = <<>>
    /\ desiredStatus = {}
    /\ pending = {}
    /\ statusErrs = FALSE
    /\ phase = "running"
    /\ cleaned = {}
    /\ cleanErrs = FALSE
    /\ forwarding = TRUE
    /\ ownedVersion = 0
    /\ forwarder = <<>>
    /\ cellVersion = 0
    /\ sync = NoSync
    /\ resourceVersion = 0
    /\ deb = NewDebouncer
    /\ fetch = NoFetch
    /\ collect = NoCollect
    /\ sig = NewSignals
    /\ \E a, b, c \in StatusEntryMenu :
          cmp = [pc |-> "input", el |-> <<a, b, c>>, equal |-> <<>>]

compareFrame ==
    UNCHANGED <<proxyVars, hostIp, apiIngress, services, secrets, ingressState, queue, recPc,
                processedState, desiredStatus, pending, statusErrs, phase, cleaned,
                cleanErrs, forwarding, ownedVersion, forwarder, cellVersion, sync,
                resourceVersion, deb, fetch, collect, sig>>

\* statusEqual of k8sclient.go on every pair of the three entries
CompareStatus ==
    /\ cmp.pc = "input"
    /\ cmp' = [cmp EXCEPT !.pc = "k8sclient",
                          !.equal = [i \in 1..3 |-> [j \in 1..3 |->
                                        statusEqual(cmp.el[i], cmp.el[j])]]]
    /\ compareFrame

\* statusEqual of client.go on every pair of the three entries
CompareStatusInformers ==
    /\ cmp.pc = "input"
    /\ cmp' = [cmp EXCEPT !.pc = "client",
                          !.equal = [i \in 1..3 |-> [j \in 1..3 |->
                                        statusEqualInformers(cmp.el[i], cmp.el[j])]]]
    /\ compareFrame

NextCompare ==
    \/ CompareStatus
    \/ CompareStatusInformers

SpecCompare == InitCompare /\ [][NextCompare]_vars

\* hostname, IP and the port lists, element by element, are the same; an absent
\* error message equals an absent one only
sameEntry(a, b) ==
    /\ a.Hostname = b.Hostname
    /\ a.IP = b.IP
    /\ Len(a.Ports) = Len(b.Ports)
    /\ \A i \in DOMAIN a.Ports :
          /\ a.Ports[i].Port = b.Ports[i].Port
          /\ a.Ports[i].Protocol = b.Ports[i].Protocol
          /\ a.Ports[i].Error = b.Ports[i].Error

\* the results on the three entries are those of an equivalence relation that
\* holds exactly between entries that are the same
equivalenceResults ==
    /\ \A i \in 1..3 : cmp.equal[i][i]
    /\ \A i, j \in 1..3 : cmp.equal[i][j] = cmp.equal[j][i]
    /\ \A i, j, k \in 1..3 : (cmp.equal[i][j] /\ cmp.equal[j][k]) => cmp.equal[i][k]
    /\ \A i, j \in 1..3 : cmp.equal[i][j] = sameEntry(cmp.el[i], cmp.el[j])

\* C33: statusEqual is reflexive, symmetric and transitive, and true exactly for
\* two entries with the same hostname, the same IP and port lists of the same
\* length that agree element by element in port, protocol and error message
C33_StatusEqualEquivalence ==
    cmp.pc \in {"k8sclient", "client"} => equivalenceResults

\* the same for statusEqual of k8sclient.go alone
StatusEqualEquivalenceK8sClient ==
    cmp.pc = "k8sclient" => equivalenceResults

(***************************************************************************)
(* Ingresses with a path whose backend is a resource: backend.service is   *)
(* nil in the object the API server delivers.                              *)
(***************************************************************************)
\* a path with backend.resource set and no backend.service
HTTPIngressPathOfResource(pathType, path) ==
    [PathType |-> pathType, Path |-> path, Backend |-> [Service |-> <<>>]]

IngressOfResource(key) ==
    Ingress(key, EmptyMap, <<ingressClassName>>,
            <<IngressRule("h1", <<HTTPIngressPath(PathTypePrefix, PathA, "svc", 80, ""),
                                  HTTPIngressPathOfResource(PathTypePrefix, PathAB)>>)>>,
            <<>>, <<>>)

\* collectBackendPaths reads path.Backend.Service.Name of every path of every rule
\* with HTTP set: TRUE iff one of these reads dereferences a nil pointer
dereferencesNilService(ingress) ==
    \E i \in DOMAIN ingress.Spec.Rules :
        /\ ingress.Spec.Rules[i].HTTP # <<>>
        /\ \E j \in DOMAIN ingress.Spec.Rules[i].HTTP[1].Paths :
              ingress.Spec.Rules[i].HTTP[1].Paths[j].Backend.Service = <<>>

\* Reconcile(req) stores the fetched Ingress and panics in processState
reconcilePanics(key) ==
    /\ key \in DOMAIN apiIngress
    /\ ~classRejected(apiIngress[key])
    /\ ~(key \in DOMAIN ingressState /\ ingressState[key].Spec = apiIngress[key].Spec)
    /\ \E k \in DOMAIN MapPut(ingressState, key, apiIngress[key]) :
          dereferencesNilService(MapPut(ingressState, key, apiIngress[key])[k])

\* a user applies an Ingress with a resource backend
IngressApplyOfResource ==
    /\ phase = "running"
    /\ recPc = "idle"
    /\ \E key \in Keys :
          LET obj == IngressOfResource(key)
              new == IF key \in DOMAIN apiIngress
                     THEN [obj EXCEPT !.Status = apiIngress[key].Status]
                     ELSE obj
          IN  /\ key \in DOMAIN apiIngress => apiIngress[key] # new
              /\ apiIngress' = MapPut(apiIngress, key, new)
              /\ queue' = queue \cup {key}
    /\ UNCHANGED <<services, secrets>>
    /\ clusterFrame

\* a Reconcile that does not panic
ReconcileNormally(key) ==
    /\ ~reconcilePanics(key)
    /\ Reconcile(key)

\* a Reconcile that panics: the nil pointer dereference ends the process
ReconcilePanic(key) ==
    /\ phase = "running"
    /\ recPc = "idle"
    /\ key \in queue
    /\ reconcilePanics(key)
    /\ queue' = queue \ {key}
    /\ ingressState' = MapPut(ingressState, key, apiIngress[key])
    /\ phase' = "crashed"
    /\ UNCHANGED <<proxyVars, stepVars, hostIp, apiIngress, services, secrets, recPc,
                   processedState, desiredStatus, pending, statusErrs, cleaned, cleanErrs>>

NextOfResource ==
    \/ \E key \in Keys : ReconcileNormally(key)
    \/ \E key \in Keys : ReconcilePanic(key)
    \/ forwardUpdates
    \/ UpdateStatus
    \/ ReconcileReturn
    \/ IngressApply
    \/ IngressApplyOfResource
    \/ IngressDelete

SpecOfResource == Init /\ [][NextOfResource]_vars

\* C34: Reconcile never panics, whatever Ingress the API server delivers, one with
\* a path without backend.service included
C34_ReconcileNeverPanics == phase # "crashed"

(***************************************************************************)
(* The main handler over snapshots with Prefix entries /a/b and /a.        *)
(***************************************************************************)
PrefixPathMenu ==
    {BackendPath(PathTypePrefix, PathAB, "ns1", "s1", 80),
     BackendPath(PathTypePrefix, PathA, "ns1", "s2", 80),
     BackendPath(PathTypeExact, <<"/", "a", "/", "b", "/", "c">>, "ns1", "s3", 80)}

PrefixInputs ==
    {"h1" :> DomainConfig(ps, <<>>) : ps \in InjSeqs(PrefixPathMenu, MaxPaths)}

\* ReverseProxy.LoadIngressState called with one of these states
LoadPrefixState ==
    \E state \in PrefixInputs :
        /\ proxyState' = StateAfterLoad(proxyState, state)
        /\ loadResult' = IF LoadIngressStateOk(state) THEN "nil" ELSE "error"
        /\ UNCHANGED <<resp, inflight, ctrlVars>>

NextPrefix ==
    \/ LoadPrefixState
    \/ GetHandlerProxying

SpecPrefix == InitProxy /\ [][NextPrefix]_vars

\* prefix is a prefix of path made of whole path components: the path ends with
\* the prefix or goes on with a "/" behind it
componentPrefix(path, prefix) ==
    /\ HasPrefix(path, prefix)
    /\ \/ Len(path) = Len(prefix)
       \/ prefix[Len(prefix)] = "/"
       \/ path[Len(prefix) + 1] = "/"

\* C35: a request is dispatched to a Prefix entry only if the entry's path is a
\* prefix of the request path component by component (/a/b for /a/b and /a/b/c,
\* not for /a/bc), and a request for which the host has such a Prefix entry is
\* dispatched to a backend
C35_PrefixPerComponent ==
    [][(resp' # resp /\ resp'.handler = "proxying" /\ proxyState # <<>>
           /\ resp'.host \in DOMAIN proxyState[1].backendPathHandlers) =>
          LET hs == proxyState[1].backendPathHandlers[resp'.host]
          IN  /\ (resp'.backend # <<>> /\ resp'.backend[1].PathType = PathTypePrefix)
                    => componentPrefix(resp'.path, resp'.backend[1].Path)
              /\ (\E i \in DOMAIN hs : /\ hs[i].PathType = PathTypePrefix
                                        /\ componentPrefix(resp'.path, hs[i].Path))
                    => resp'.backend # <<>>]_vars

\* the second half alone: a request a Prefix entry matches by components reaches
\* a backend
PrefixMatchesDispatched ==
    [][(resp' # resp /\ resp'.handler = "proxying" /\ proxyState # <<>>
           /\ resp'.host \in DOMAIN proxyState[1].backendPathHandlers) =>
          LET hs == proxyState[1].backendPathHandlers[resp'.host]
          IN  (\E i \in DOMAIN hs : /\ hs[i].PathType = PathTypePrefix
                                     /\ componentPrefix(resp'.path, hs[i].Path))
                  => resp'.backend # <<>>]_vars

\* the snapshot `snapshot` holds the routing table and the certificate table of
\* the state `state`
builtFrom(snapshot, state) ==
    /\ DOMAIN snapshot.backendPathHandlers = DOMAIN state
    /\ \A host \in DOMAIN state :
          LET ps == state[host].BackendPaths
              hs == snapshot.backendPathHandlers[host]
          IN  /\ Len(hs) = Len(ps)
              /\ \A i \in DOMAIN ps :
                    \E k \in DOMAIN hs :
                        /\ hs[k].Path = ps[i].Path
                        /\ hs[k].PathType = ps[i].PathType
                        /\ hs[k].ProxyHandler =
                              <<ps[i].ServiceName, ps[i].Namespace, ps[i].ServicePort>>
    /\ DOMAIN snapshot.tlsCerts = {host \in DOMAIN state : state[host].TlsCert # <<>>}
    /\ \A host \in DOMAIN snapshot.tlsCerts :
          snapshot.tlsCerts[host].Leaf = state[host].TlsCert[1].Cert

\* C36: a LoadIngressState that returns an error leaves the snapshot cell as it was,
\* routing and certificates; one that returns nil leaves in the cell a snapshot
\* whose routing table and certificate table are both those of the given state
C36_LoadAllOrNothing ==
    [][(recPc = "send" /\ recPc' = "status") =>
          IF loadResult' = "error"
          THEN proxyState' = proxyState
          ELSE proxyState' # <<>> /\ builtFrom(proxyState'[1], processedState[1])]_vars

\* a load has failed on a key pair while the cell held a snapshot with a route and
\* a certificate
C36_Witness ==
    /\ recPc = "status"
    /\ loadResult = "error"
    /\ proxyState # <<>>
    /\ "h1" \in DOMAIN proxyState[1].tlsCerts
    /\ proxyState[1].backendPathHandlers["h1"] # <<>>

\* C37: the redirect handler hands a request to a backend only if the request path
\* starts with the ACME challenge path; every other request is answered with 308,
\* 404 or 503 and reaches no backend
C37_RedirectNeverProxiesCleartext ==
    resp.handler = "redirect" =>
        /\ resp.backend # <<>> => HasPrefix(resp.path, acmePath)
        /\ ~HasPrefix(resp.path, acmePath) =>
              /\ resp.backend = <<>>
              /\ resp.status \in {StatusPermanentRedirect, StatusNotFound,
                                  StatusServiceUnavailable}

\* the redirect handler has answered 308 to a request outside the ACME path for a
\* host whose snapshot, still in the cell, has an entry for the ACME path
C37_Witness ==
    /\ resp.handler = "redirect"
    /\ ~HasPrefix(resp.path, acmePath)
    /\ resp.status = StatusPermanentRedirect
    /\ proxyState # <<>>
    /\ resp.host \in DOMAIN proxyState[1].backendPathHandlers
    /\ \E i \in DOMAIN proxyState[1].backendPathHandlers[resp.host] :
          proxyState[1].backendPathHandlers[resp.host][i].Path = acmePath

\* a change of the cluster that is not one of the controller
ExternalChange ==
    \/ IngressApply
    \/ IngressDelete
    \/ OtherStatusWriter

\* Reconcile sends a snapshot to the proxy
Publication == recPc = "idle" /\ recPc' = "send"

\* the controller writes the status of an Ingress
StatusWrite == recPc = "status" /\ apiIngress' # apiIngress

\* every request waiting in the work queue is for an Ingress of matching class
\* whose stored copy has the spec of the object of the API server: the events left
\* are those of status writes
onlyStatusEvents ==
    \A key \in queue :
        /\ key \in DOMAIN apiIngress
        /\ key \in DOMAIN ingressState
        /\ ~classRejected(apiIngress[key])
        /\ ingressState[key].Spec = apiIngress[key].Spec

\* C38: if the external changes stop, the publications of snapshots and the status
\* writes stop as well; and a step of the controller that starts with nothing but
\* events of status writes in the work queue publishes no snapshot and writes no
\* status
C38_LoopQuiesces ==
    /\ (<>[][~ExternalChange]_vars) => (<>[][~Publication /\ ~StatusWrite]_vars)
    /\ [][(onlyStatusEvents /\ recPc = "idle" /\ ~ExternalChange) =>
             (~Publication /\ apiIngress' = apiIngress /\ proxyState' = proxyState)]_vars

\* the controller is idle, the work queue is empty, a snapshot is published and an
\* owned Ingress carries the status entry the controller wrote
C38_Witness ==
    /\ recPc = "idle"
    /\ queue = {}
    /\ proxyState # <<>>
    /\ \E key \in DOMAIN ingressState :
          /\ key \in DOMAIN apiIngress
          /\ findIngressStatus(apiIngress[key].Status, HostIP) # 0

(***************************************************************************)
(* CleanIngressStatus with its goroutines: one per owned Ingress, which    *)
(* sends its error on the unbuffered errChan and calls wg.Done(), and the  *)
(* collecting goroutine, which receives an error and then appends it to    *)
(* errors.  CleanIngressStatus returns errors when wg.Wait() is over.      *)
(***************************************************************************)
cleanFrame ==
    UNCHANGED <<proxyVars, hostIp, services, secrets, ingressState, queue, recPc,
                processedState, desiredStatus, pending, statusErrs, cleanErrs, forwarding,
                ownedVersion, forwarder, cellVersion, sync, resourceVersion, deb, fetch,
                cmp, sig>>

\* the goroutine of one owned Ingress: cleanIngressStatus, the send of its error,
\* which the collecting goroutine has to be ready to receive, and wg.Done()
CleanGoroutine ==
    /\ phase = "cleaning"
    /\ recPc = "idle"
    /\ \E key \in (DOMAIN ingressState) \ cleaned :
          LET res == cleanIngressStatus(apiIngress, ingressState[key], hostIp)
          IN  /\ res.result = "error" => collect.held = <<>>
              /\ cleaned' = cleaned \cup {key}
              /\ phase' = IF res.result = "panic" THEN "crashed" ELSE phase
              /\ collect' = IF res.result = "error"
                            THEN [collect EXCEPT !.held = <<key>>,
                                                 !.failed = @ \cup {key}]
                            ELSE collect
              /\ IF res.result = "written"
                 THEN apiIngress' = [apiIngress EXCEPT ![key].Status = res.status]
                 ELSE UNCHANGED apiIngress
    /\ cleanFrame

\* the collecting goroutine appends the error it has received
CollectAppend ==
    /\ collect.held # <<>>
    /\ collect' = [collect EXCEPT !.held = <<>>, !.errors = @ \cup {collect.held[1]}]
    /\ UNCHANGED <<apiIngress, phase, cleaned>>
    /\ cleanFrame

\* wg.Wait() is over: return errors
CleanReturnErrors ==
    /\ phase = "cleaning"
    /\ recPc = "idle"
    /\ cleaned = DOMAIN ingressState
    /\ phase' = "done"
    /\ collect' = [collect EXCEPT !.returned = <<collect.errors>>]
    /\ UNCHANGED <<apiIngress, cleaned>>
    /\ cleanFrame

NextClean ==
    \/ \E key \in Keys : Reconcile(key)
    \/ forwardUpdates
    \/ UpdateStatus
    \/ ReconcileReturn
    \/ IngressApply
    \/ IngressDelete
    \/ Shutdown
    \/ CleanGoroutine
    \/ CollectAppend
    \/ CleanReturnErrors

SpecClean == Init /\ [][NextClean]_vars

\* C39: the slice CleanIngressStatus returns holds the error of every Ingress whose
\* cleanup failed, however the cleanup goroutines and the collecting goroutine
\* are interleaved
C39_AllCleanErrorsReturned ==
    collect.returned # <<>> => collect.failed \subseteq collect.returned[1]

\* the collecting goroutine gets every error before CleanIngressStatus returns: no
\* send is lost, the error missing from the slice is one received and not yet appended
CleanErrorsReceived ==
    collect.returned # <<>> =>
        collect.failed \subseteq (collect.returned[1] \cup Range(collect.held)
                                     \cup collect.errors)

(***************************************************************************)
(* signalUpdateAfterSync (client.go): every event of an informer starts    *)
(* one call in a goroutine of its own; the goroutine of New receives from  *)
(* addUpdDelChan.                                                          *)
(***************************************************************************)
signalFrame ==
    UNCHANGED <<proxyVars, hostIp, apiIngress, services, secrets, ingressState, queue, recPc,
                processedState, desiredStatus, pending, statusErrs, phase, cleaned,
                cleanErrs, forwarding, ownedVersion, forwarder, cellVersion, sync,
                resourceVersion, deb, fetch, cmp, collect>>

\* a CompareAndSwap that always succeeds
CompareAndSwap_always(value, old, new) == [swapped |-> TRUE, value |-> new]

\* atomic.Bool.CompareAndSwap(old, new) on a flag that holds value
CompareAndSwap(value, old, new) ==
    IF value = old THEN [swapped |-> TRUE, value |-> new]
    ELSE [swapped |-> FALSE, value |-> value]

\* the informers have synced (and stay synced)
InformersSync ==
    /\ ~sig.synced
    /\ sig' = [sig EXCEPT !.synced = TRUE]
    /\ signalFrame

\* call c starts: CompareAndSwap(false, true) and the return when it fails
SignalStart(c) ==
    /\ sig.pc[c] = "new"
    /\ LET cas == CompareAndSwap(sig.queued, FALSE, TRUE)
       IN  sig' = [sig EXCEPT !.queued = cas.value,
                              !.pc[c] = IF cas.swapped THEN "waitForSync" ELSE "returned",
                              !.startSent[c] = sig.sent]
    /\ signalFrame

\* c.waitForSync(ctx) returns
SignalSynced(c) ==
    /\ sig.pc[c] = "waitForSync"
    /\ sig.synced
    /\ sig' = [sig EXCEPT !.pc[c] = "lock"]
    /\ signalFrame

\* c.addUpdDelCallbackMu.Lock()
SignalLock(c) ==
    /\ sig.pc[c] = "lock"
    /\ sig.mu = 0
    /\ sig' = [sig EXCEPT !.mu = c, !.pc[c] = "store"]
    /\ signalFrame

\* c.addUpdDelCallbackQueued.Store(false)
SignalStore(c) ==
    /\ sig.pc[c] = "store"
    /\ sig' = [sig EXCEPT !.queued = FALSE, !.pc[c] = "send"]
    /\ signalFrame

\* the send on addUpdDelChan meets the receive of the goroutine of New; the
\* deferred Unlock follows
SignalSend(c) ==
    /\ sig.pc[c] = "send"
    /\ sig' = [sig EXCEPT !.sent = @ + 1, !.mu = 0, !.pc[c] = "signalled"]
    /\ signalFrame

NextSignal ==
    \/ InformersSync
    \/ \E c \in 1..MaxEvents : SignalStart(c)
    \/ \E c \in 1..MaxEvents : SignalSynced(c)
    \/ \E c \in 1..MaxEvents : SignalLock(c)
    \/ \E c \in 1..MaxEvents : SignalStore(c)
    \/ \E c \in 1..MaxEvents : SignalSend(c)

SpecSignal == Init /\ [][NextSignal]_vars

\* the informers sync, every goroutine that can take a step takes it, and the
\* receiver keeps reading; events are under no obligation to happen
SpecSignalFair ==
    /\ SpecSignal
    /\ WF_vars(InformersSync)
    /\ \A c \in 1..MaxEvents :
          /\ WF_vars(SignalSynced(c))
          /\ WF_vars(SignalLock(c))
          /\ WF_vars(SignalStore(c))
          /\ WF_vars(SignalSend(c))

====
